---- MODULE Spec2Model ----
(***************************************************************************)
(* Model of the Directus MCP server: toolset parsing and filtering         *)
(* (index.ts), the DirectusClient bootstrap and request path               *)
(* (directus-client.ts) and the tool-call dispatcher (index.ts).           *)
(*                                                                         *)
(* JavaScript strings that the code takes apart (MCP_TOOLSETS, the URL)    *)
(* are sequences of one-character strings; strings the code only compares  *)
(* or concatenates are TLA+ strings, and a built message is the sequence   *)
(* of its parts.                                                           *)
(***************************************************************************)
EXTENDS Integers, Sequences, FiniteSets, TLC

VARIABLES
  \* ---- toolset functions applied to drawn inputs (SpecToolsets)
  tsPc,          \* "parse" | "parsed" | "filter" | "filtered" | "off"
  rawTokens,     \* the tokens the configuration string was written from
  envValue,      \* MCP_TOOLSETS: [defined, chars]
  parseOut,      \* result of parseToolsets(envValue)
  parseWarn,     \* warning parseToolsets printed: "none" | "defaulting" | "ignored"
  tsTools,       \* registry handed to filterToolsByToolsets
  tsActive,      \* toolset list handed to filterToolsByToolsets
  filterOut,     \* result of filterToolsByToolsets(tsTools, tsActive)
  \* ---- DirectusClient (SpecClient, Spec)
  config,        \* DirectusConfig handed to the constructor: [url, token, email, password]
  cpc,           \* "new" | "threw" | "constructed" | "authenticating" | "ready" | "authFailed"
  client,        \* the DirectusClient object: [baseUrl, authHeaders, sdk, session]
  logins,        \* login exchanges sent to the remote service
  loginRejection,\* what the login exchange rejected with
  thrown,        \* message of the error the constructor or authenticate() threw
  \* ---- the server process of index.ts (Spec)
  pc,            \* "off" | "load" | "main" | "awaitClient" | "connect" | "serving" | "exited"
  enabledToolsets, \* const enabledToolsets
  enabledTools,  \* const enabledTools
  directusClient,\* whether the module variable directusClient has been assigned
  connected,     \* whether server.connect(transport) has run
  slots,         \* tool calls in flight, each awaiting its fetch
  lastResponse,  \* the tool call that completed last, and how
  \* ---- the client library exercised on its own (SpecRequest, SpecQuery, SpecResource)
  rq,            \* one invocation of DirectusClient.request(): position, inputs, calls, result
  qs,            \* one application of buildQueryString: [pc, params, out]
  rf,            \* one resource object built by createResourceMethods, and a call on it
  \* ---- the tools exercised on their own (SpecWrap, SpecTool)
  th,            \* one tool made by createTool / createActionTool, and one run of its handler
  tl,            \* one run of the inner handler of delete_relation or trigger_flow
  both,          \* one method called on the factory-based and on the hand-written client
  \* ---- the server's answers to tools/list (Spec)
  listed         \* the tool names of the last tools/list response, and whether one was sent

tsVars == <<tsPc, rawTokens, envValue, parseOut, parseWarn, tsTools, tsActive, filterOut>>
clientVars == <<config, cpc, client, logins, loginRejection, thrown>>
serverVars == <<pc, enabledToolsets, enabledTools, directusClient, connected, slots, lastResponse,
                listed>>
toolVars == <<th, tl, both>>
libVars == <<rq, qs, rf, toolVars>>

\* ------------------------------------------------------------------------
\* Bounds
\* ------------------------------------------------------------------------
MaxTokens == 3   \* comma-separated tokens in a drawn MCP_TOOLSETS value
MaxTools  == 2   \* tools in a drawn registry
MaxActive == 2   \* entries in a drawn active-toolset list
MaxPresent == 2  \* keys of a drawn query bag that hold their usual value (one more may vary)
MaxInFlight == 2 \* tool calls the host keeps in flight at once

\* ------------------------------------------------------------------------
\* Strings as character sequences
\* ------------------------------------------------------------------------
LowerAlpha == <<"a","b","c","d","e","f","g","h","i","j","k","l","m",
                "n","o","p","q","r","s","t","u","v","w","x","y","z">>
UpperAlpha == <<"A","B","C","D","E","F","G","H","I","J","K","L","M",
                "N","O","P","Q","R","S","T","U","V","W","X","Y","Z">>

\* The characters of the string literals the model uses.
Chars(w) ==
  CASE w = "default"     -> <<"d","e","f","a","u","l","t">>
    [] w = "schema"      -> <<"s","c","h","e","m","a">>
    [] w = "content"     -> <<"c","o","n","t","e","n","t">>
    [] w = "flow"        -> <<"f","l","o","w">>
    [] w = "collections" -> <<"c","o","l","l","e","c","t","i","o","n","s">>
    [] w = "fields"      -> <<"f","i","e","l","d","s">>
    [] w = "relations"   -> <<"r","e","l","a","t","i","o","n","s">>
    [] w = "all"         -> <<"a","l","l">>
    [] w = "nope"        -> <<"n","o","p","e">>
    [] w = ""            -> <<>>

\* String.prototype.toLowerCase
toLowerCase(s) ==
  [i \in 1..Len(s) |->
     IF \E k \in 1..26 : UpperAlpha[k] = s[i]
       THEN LowerAlpha[CHOOSE k \in 1..26 : UpperAlpha[k] = s[i]]
       ELSE s[i]]

toUpperCase(s) ==
  [i \in 1..Len(s) |->
     IF \E k \in 1..26 : LowerAlpha[k] = s[i]
       THEN UpperAlpha[CHOOSE k \in 1..26 : LowerAlpha[k] = s[i]]
       ELSE s[i]]

IsSpace(c) == c \in {" ", "\t", "\n"}

RECURSIVE trimStart(_)
trimStart(s) ==
  IF s = <<>> THEN <<>>
  ELSE IF IsSpace(Head(s)) THEN trimStart(Tail(s)) ELSE s

RECURSIVE trimEnd(_)
trimEnd(s) ==
  IF s = <<>> THEN <<>>
  ELSE IF IsSpace(s[Len(s)]) THEN trimEnd(SubSeq(s, 1, Len(s) - 1)) ELSE s

\* String.prototype.trim
trim(s) == trimEnd(trimStart(s))

\* String.prototype.split(','): the segments between commas, empties kept
RECURSIVE splitFrom(_, _, _)
splitFrom(s, i, cur) ==
  IF i > Len(s) THEN <<cur>>
  ELSE IF s[i] = "," THEN <<cur>> \o splitFrom(s, i + 1, <<>>)
  ELSE splitFrom(s, i + 1, Append(cur, s[i]))

split(s) == splitFrom(s, 1, <<>>)

InSeq(x, s) == \E i \in 1..Len(s) : s[i] = x

\* ------------------------------------------------------------------------
\* index.ts: toolset parsing and filtering
\* ------------------------------------------------------------------------

\* const validToolsets inside parseToolsets
validToolsets == <<"default", "schema", "content", "flow", "collections", "fields", "relations">>

\* validToolsets.includes(t) for a token t given as characters
IsValidToken(t) == \E i \in 1..Len(validToolsets) : Chars(validToolsets[i]) = t

\* the string a valid token is
ToolsetOf(t) == validToolsets[CHOOSE i \in 1..Len(validToolsets) : Chars(validToolsets[i]) = t]

\* envValue.split(',').map(t => t.trim().toLowerCase()).filter(t => t.length > 0)
requestedToolsets(chars) ==
  LET parts  == split(chars)
      mapped == [i \in 1..Len(parts) |-> toLowerCase(trim(parts[i]))]
  IN  SelectSeq(mapped, LAMBDA t : Len(t) > 0)

\* !envValue || envValue.trim() === ''
EnvIsBlank(env) == (~env.defined) \/ env.chars = <<>> \/ trim(env.chars) = <<>>

\* the case in which filtered.length === 0 returns ['default']; under the
\* mutant the empty list is returned as it is
parseToolsets_NoDefault(env) ==
  IF EnvIsBlank(env) THEN <<"default">>
  ELSE LET valid == SelectSeq(requestedToolsets(env.chars), IsValidToken)
       IN  [i \in 1..Len(valid) |-> ToolsetOf(valid[i])]

\* a parse that forgets to lowercase the tokens
parseToolsets_CaseSensitive(env) ==
  IF EnvIsBlank(env) THEN <<"default">>
  ELSE LET parts == split(env.chars)
           req   == SelectSeq([i \in 1..Len(parts) |-> trim(parts[i])], LAMBDA t : Len(t) > 0)
           valid == SelectSeq(req, IsValidToken)
       IN  IF Len(valid) = 0 THEN <<"default">>
           ELSE [i \in 1..Len(valid) |-> ToolsetOf(valid[i])]

parseToolsets(env) ==
  IF EnvIsBlank(env) THEN <<"default">>
  ELSE LET valid    == SelectSeq(requestedToolsets(env.chars), IsValidToken)
           filtered == [i \in 1..Len(valid) |-> ToolsetOf(valid[i])]
       IN  IF Len(filtered) = 0 THEN <<"default">> ELSE filtered

\* which console.error warning parseToolsets prints
parseWarning(env) ==
  IF EnvIsBlank(env) THEN "none"
  ELSE LET req == requestedToolsets(env.chars)
       IN  IF Len(SelectSeq(req, IsValidToken)) = 0 THEN "defaulting"
           ELSE IF Len(SelectSeq(req, LAMBDA t : ~IsValidToken(t))) > 0 THEN "ignored"
           ELSE "none"

\* tool.toolsets.some(toolset => toolsets.includes(toolset))
ToolInToolsets(tool, toolsets) ==
  \E i \in 1..Len(tool.toolsets) : InSeq(tool.toolsets[i], toolsets)

filterToolsByToolsets(tools, toolsets) ==
  SelectSeq(tools, LAMBDA tool : ToolInToolsets(tool, toolsets))

\* ------------------------------------------------------------------------
\* Inputs of the toolset functions
\* ------------------------------------------------------------------------
SeqsUpTo(S, n) == UNION {[1..k -> S] : k \in 0..n}

\* words a configuration token is written from, and the ways it is written
TokenWords  == {"flow", "schema", "all", "nope", ""}
TokenStyles == {"plain", "upper", "padded"}
RawTokens   == [word : TokenWords, style : TokenStyles]

RenderToken(tok) ==
  CASE tok.style = "plain"  -> Chars(tok.word)
    [] tok.style = "upper"  -> toUpperCase(Chars(tok.word))
    [] tok.style = "padded" -> <<" ">> \o Chars(tok.word) \o <<"\t", " ">>

RECURSIVE JoinComma(_)
JoinComma(toks) ==
  IF toks = <<>> THEN <<>>
  ELSE IF Len(toks) = 1 THEN RenderToken(toks[1])
  ELSE RenderToken(toks[1]) \o <<",">> \o JoinComma(Tail(toks))

EnvUndefined == [defined |-> FALSE, chars |-> <<>>]
EnvOf(toks)  == [defined |-> TRUE, chars |-> JoinComma(toks)]

\* registries and active lists handed to filterToolsByToolsets
ToolsetLists  == {<<"default", "schema">>, <<"default">>, <<"flow">>, <<>>}
ToolNames     == <<"X", "Y", "Z", "W">>
Registries    == {[i \in 1..Len(ts) |-> [name |-> ToolNames[i], toolsets |-> ts[i]]] :
                    ts \in SeqsUpTo(ToolsetLists, MaxTools)}
ActiveLists   == SeqsUpTo({"default", "schema", "flow", "all"}, MaxActive)

ToolsetsOff ==
  /\ tsPc = "off" /\ rawTokens = <<>> /\ envValue = EnvUndefined
  /\ parseOut = <<>> /\ parseWarn = "none"
  /\ tsTools = <<>> /\ tsActive = <<>> /\ filterOut = <<>>

\* ------------------------------------------------------------------------
\* directus-client.ts: construction and authentication
\* ------------------------------------------------------------------------
Undefined == "<undefined>"

\* JavaScript truthiness of an optional string
Truthy(v) == v # Undefined /\ v # ""

\* a constructor that keeps the url as configured
StripTrailingSlash_Keep(url) == url

\* config.url.replace(/\/$/, '')
StripTrailingSlash(url) ==
  IF Len(url) > 0 /\ url[Len(url)] = "/" THEN SubSeq(url, 1, Len(url) - 1) ELSE url

NoAuthHeaders == [has |-> FALSE, Authorization |-> <<>>]

NoClient == [baseUrl |-> <<>>, authHeaders |-> NoAuthHeaders, sdk |-> "none", session |-> ""]

NoRejection == [isError |-> FALSE, text |-> ""]

\* the error of initializeClient when neither credential form is given
ConfigErrorMessage == <<"Authentication configuration required: provide either token or email/password">>

\* an initializeClient that accepts a lone email or a lone password
initializeClient_LoosePair(cfg) ==
  IF Truthy(cfg.token)
    THEN [threw |-> FALSE, sdk |-> "staticToken",
          authHeaders |-> [has |-> TRUE, Authorization |-> <<"Bearer ", cfg.token>>]]
  ELSE IF Truthy(cfg.email) \/ Truthy(cfg.password)
    THEN [threw |-> FALSE, sdk |-> "authentication", authHeaders |-> NoAuthHeaders]
  ELSE [threw |-> TRUE, sdk |-> "none", authHeaders |-> NoAuthHeaders]

\* initializeClient: which SDK client is composed, which headers are kept
initializeClient(cfg) ==
  IF Truthy(cfg.token)
    THEN [threw |-> FALSE, sdk |-> "staticToken",
          authHeaders |-> [has |-> TRUE, Authorization |-> <<"Bearer ", cfg.token>>]]
  ELSE IF Truthy(cfg.email) /\ Truthy(cfg.password)
    THEN [threw |-> FALSE, sdk |-> "authentication", authHeaders |-> NoAuthHeaders]
  ELSE [threw |-> TRUE, sdk |-> "none", authHeaders |-> NoAuthHeaders]

\* new DirectusClient(config): what the constructor throws or builds
NewDirectusClient(cfg) ==
  LET r == initializeClient(cfg)
  IN  IF r.threw
        THEN [threw |-> TRUE, error |-> ConfigErrorMessage, client |-> NoClient]
        ELSE [threw |-> FALSE, error |-> <<>>,
              client |-> [baseUrl |-> StripTrailingSlash(cfg.url),
                          authHeaders |-> r.authHeaders,
                          sdk |-> r.sdk, session |-> ""]]

\* error instanceof Error ? error.message : String(error)
RejectionText(rej) == rej.text

\* what authenticate() throws when the login attempt fails
AuthFailureMessage(rej) == <<"Authentication failed: ", RejectionText(rej)>>

\* the client composed with staticToken() has no login method: calling it
\* throws a TypeError inside the try block
LoginNotAFunction == [isError |-> TRUE, text |-> "this.client.login is not a function"]

\* authenticate() up to its first await, on the client c with configuration cfg:
\* the state it reaches, whether a login exchange was sent, what it threw
AuthenticateStart(cfg, c) ==
  IF Truthy(cfg.email) /\ Truthy(cfg.password)
    THEN IF c.sdk = "authentication"
           THEN [cpc |-> "authenticating", loginSent |-> TRUE,
                 rejection |-> NoRejection, thrown |-> <<>>]
           ELSE [cpc |-> "authFailed", loginSent |-> FALSE,
                 rejection |-> LoginNotAFunction,
                 thrown |-> AuthFailureMessage(LoginNotAFunction)]
    ELSE [cpc |-> "ready", loginSent |-> FALSE, rejection |-> NoRejection, thrown |-> <<>>]

\* tokens a successful login exchange hands to the SDK
SessionTokens == {"session-1"}

\* what a login exchange rejects with: Error objects and other values
LoginRejections == {[isError |-> TRUE,  text |-> "Invalid credentials"],
                    [isError |-> FALSE, text |-> "[object Object]"]}

\* the state authenticate() leaves when login rejects; under the mutant the
\* failure is swallowed
AfterLoginReject_Swallow(rej) ==
  /\ cpc' = "ready"
  /\ loginRejection' = rej
  /\ thrown' = <<>>

AfterLoginReject(rej) ==
  /\ cpc' = "authFailed"
  /\ loginRejection' = rej
  /\ thrown' = AuthFailureMessage(rej)

\* await this.client.login(...) resolves: the SDK client keeps the session
LoginResolve ==
  /\ cpc = "authenticating"
  /\ \E tok \in SessionTokens : client' = [client EXCEPT !.session = tok]
  /\ cpc' = "ready"
  /\ UNCHANGED <<config, logins, loginRejection, thrown>>

\* await this.client.login(...) rejects
LoginReject ==
  /\ cpc = "authenticating"
  /\ \E rej \in LoginRejections : AfterLoginReject(rej)
  /\ UNCHANGED <<config, client, logins>>

ClientOff ==
  /\ config = [url |-> <<>>, token |-> Undefined, email |-> Undefined, password |-> Undefined]
  /\ cpc = "off" /\ client = NoClient /\ logins = 0
  /\ loginRejection = NoRejection /\ thrown = <<>>

\* ------------------------------------------------------------------------
\* JSON values and tool arguments
\* ------------------------------------------------------------------------
\* a JSON value: its JavaScript type and its text
Str(cs)   == [t |-> "string", v |-> cs]
Num(d)    == [t |-> "number", v |-> <<d>>]
Obj(tag)  == [t |-> "object", v |-> <<tag>>]
Undef     == [t |-> "undefined", v |-> <<>>]

\* request.params.arguments: an object (its key/value pairs) or not an object
ArgsObject(fields) == [isObject |-> TRUE, fields |-> fields]
ArgsMissing        == [isObject |-> FALSE, fields |-> {}]

Has(a, k) == \E f \in a.fields : f[1] = k
Get(a, k) == IF Has(a, k) THEN (CHOOSE f \in a.fields : f[1] = k)[2] ELSE Undef

\* ------------------------------------------------------------------------
\* tools/validators.ts and the tools' input schemas (zod)
\* ------------------------------------------------------------------------
\* the outcome of parsing one field: the parsed value or the issue's message
FieldParse(kind, present, val) ==
  IF ~present THEN [ok |-> FALSE, val |-> Undef, issue |-> <<"Required">>]
  ELSE
  CASE kind = "CollectionNameSchema" ->   \* z.string().trim().min(1)
         IF val.t # "string"
           THEN [ok |-> FALSE, val |-> Undef, issue |-> <<"Expected string, received ", val.t>>]
         ELSE IF Len(trim(val.v)) < 1
           THEN [ok |-> FALSE, val |-> Undef, issue |-> <<"String must contain at least 1 character(s)">>]
         ELSE [ok |-> TRUE, val |-> Str(trim(val.v)), issue |-> <<>>]
    [] kind = "UuidSchema" ->             \* z.string().min(1)
         IF val.t # "string"
           THEN [ok |-> FALSE, val |-> Undef, issue |-> <<"Expected string, received ", val.t>>]
         ELSE IF Len(val.v) < 1
           THEN [ok |-> FALSE, val |-> Undef, issue |-> <<"String must contain at least 1 character(s)">>]
         ELSE [ok |-> TRUE, val |-> val, issue |-> <<>>]
    [] kind = "ItemIdSchema" ->           \* z.union([z.string(), z.number()])
         IF val.t \in {"string", "number"}
           THEN [ok |-> TRUE, val |-> val, issue |-> <<>>]
           ELSE [ok |-> FALSE, val |-> Undef, issue |-> <<"Invalid input">>]
    [] kind = "AnyRecordSchema" ->        \* z.record(z.any())
         IF val.t = "object"
           THEN [ok |-> TRUE, val |-> val, issue |-> <<>>]
           ELSE [ok |-> FALSE, val |-> Undef, issue |-> <<"Expected object, received ", val.t>>]

\* the z.object({...}) of a tool: its fields in declaration order
InputSchema(name) ==
  CASE name = "list_collections" -> <<>>
    [] name = "create_item" -> <<[key |-> "collection", kind |-> "CollectionNameSchema"],
                                 [key |-> "data", kind |-> "AnyRecordSchema"]>>
    [] name = "delete_item" -> <<[key |-> "collection", kind |-> "CollectionNameSchema"],
                                 [key |-> "id", kind |-> "ItemIdSchema"]>>
    [] name = "delete_flow" -> <<[key |-> "id", kind |-> "UuidSchema"]>>

SchemaKeys(name) == {InputSchema(name)[i].key : i \in 1..Len(InputSchema(name))}

\* inputSchema.parse(args): the validated object (unknown keys stripped, values
\* as the field schemas return them) or the issues of a ZodError
ZodParse(name, args) ==
  LET schema == InputSchema(name)
      fp(i)  == FieldParse(schema[i].kind, Has(args, schema[i].key), Get(args, schema[i].key))
      bad    == SelectSeq([i \in 1..Len(schema) |-> i], LAMBDA i : ~fp(i).ok)
  IN  IF ~args.isObject
        THEN [ok |-> FALSE, value |-> ArgsMissing, issues |-> << <<"Required">> >>]
      ELSE IF Len(bad) > 0
        THEN [ok |-> FALSE, value |-> ArgsMissing,
              issues |-> [j \in 1..Len(bad) |-> fp(bad[j]).issue]]
      ELSE [ok |-> TRUE, issues |-> <<>>,
            value |-> ArgsObject({<<schema[i].key, fp(i).val>> : i \in 1..Len(schema)})]

\* ------------------------------------------------------------------------
\* The tool registry
\* ------------------------------------------------------------------------
Tool(name, toolsets, wrapper) == [name |-> name, toolsets |-> toolsets, wrapper |-> wrapper]

schemaTools == <<
  Tool("list_collections",    <<"default", "collections">>, "createTool"),
  Tool("get_collection",      <<"default", "collections">>, "createTool"),
  Tool("create_collection",   <<"default", "collections">>, "createTool"),
  Tool("update_collection",   <<"default", "collections">>, "createTool"),
  Tool("delete_collection",   <<"default", "collections">>, "createActionTool"),
  Tool("list_fields",         <<"default", "fields">>, "createTool"),
  Tool("create_field",        <<"default", "fields">>, "createTool"),
  Tool("update_field",        <<"default", "fields">>, "createTool"),
  Tool("delete_field",        <<"default", "fields">>, "createActionTool"),
  Tool("list_relations",      <<"default", "relations">>, "createTool"),
  Tool("get_schema_snapshot", <<"schema">>, "createTool"),
  Tool("get_schema_diff",     <<"schema">>, "createTool"),
  Tool("apply_schema_diff",   <<"schema">>, "createTool"),
  Tool("create_relation",     <<"default", "relations">>, "createTool"),
  Tool("delete_relation",     <<"default", "relations">>, "createActionTool") >>

contentTools == <<
  Tool("query_items",       <<"default", "content">>, "createTool"),
  Tool("get_item",          <<"default", "content">>, "createTool"),
  Tool("create_item",       <<"default", "content">>, "createTool"),
  Tool("update_item",       <<"default", "content">>, "createTool"),
  Tool("delete_item",       <<"default", "content">>, "createActionTool"),
  Tool("bulk_create_items", <<"default", "content">>, "createTool"),
  Tool("bulk_update_items", <<"default", "content">>, "createTool"),
  Tool("bulk_delete_items", <<"default", "content">>, "createActionTool") >>

flowTools == <<
  Tool("list_flows",   <<"flow">>, "createTool"),
  Tool("get_flow",     <<"flow">>, "createTool"),
  Tool("create_flow",  <<"flow">>, "createTool"),
  Tool("create_flows", <<"flow">>, "createTool"),
  Tool("update_flow",  <<"flow">>, "createTool"),
  Tool("update_flows", <<"flow">>, "createTool"),
  Tool("delete_flow",  <<"flow">>, "createActionTool"),
  Tool("delete_flows", <<"flow">>, "createActionTool"),
  Tool("trigger_flow", <<"flow">>, "createTool") >>

operationTools == <<
  Tool("list_operations",   <<"flow">>, "createTool"),
  Tool("get_operation",     <<"flow">>, "createTool"),
  Tool("create_operation",  <<"flow">>, "createTool"),
  Tool("create_operations", <<"flow">>, "createTool"),
  Tool("update_operation",  <<"flow">>, "createTool"),
  Tool("update_operations", <<"flow">>, "createTool"),
  Tool("delete_operation",  <<"flow">>, "createActionTool"),
  Tool("delete_operations", <<"flow">>, "createActionTool") >>

\* a registry that spreads contentTools twice
allTools_ContentTwice == schemaTools \o contentTools \o contentTools \o flowTools \o operationTools

\* const allTools = [...schemaTools, ...contentTools, ...flowTools, ...operationTools]
allTools == schemaTools \o contentTools \o flowTools \o operationTools

NoTool == [found |-> FALSE, tool |-> Tool("", <<>>, "")]

\* tools.find(t => t.name === name)
Find(tools, name) ==
  IF \E i \in 1..Len(tools) : tools[i].name = name
    THEN [found |-> TRUE,
          tool |-> tools[CHOOSE i \in 1..Len(tools) :
                           tools[i].name = name /\ \A j \in 1..(i - 1) : tools[j].name # name]]
    ELSE NoTool

\* a dispatcher that looks the name up in the whole registry
FindEnabledTool_Anywhere(name) == Find(allTools, name)

\* enabledTools.find(t => t.name === name)
FindEnabledTool(name) == Find(enabledTools, name)

\* error.errors.map(e => e.message).join(', '), each message a sequence of parts
RECURSIVE JoinMessages(_, _)
JoinMessages(list, sep) ==
  IF list = <<>> THEN <<>>
  ELSE IF Len(list) = 1 THEN list[1]
  ELSE list[1] \o <<sep>> \o JoinMessages(Tail(list), sep)

\* list.join(', ')
RECURSIVE JoinWith(_, _)
JoinWith(list, sep) ==
  IF list = <<>> THEN <<>>
  ELSE IF Len(list) = 1 THEN <<list[1]>>
  ELSE <<list[1], sep>> \o JoinWith(Tail(list), sep)

\* a dispatcher that reports every failed lookup as an unknown tool
LookupError_AlwaysNotFound(name) == <<"Tool not found: ", name>>

\* the error thrown when the name is not among the enabled tools
LookupError(name) ==
  LET toolExists == Find(allTools, name)
  IN  IF toolExists.found
        THEN <<"Tool \"", name, "\" is not available. It belongs to toolsets: ">>
               \o JoinWith(toolExists.tool.toolsets, ", ")
               \o <<". Enabled toolsets: ">> \o JoinWith(enabledToolsets, ", ")
        ELSE <<"Tool not found: ", name>>

\* ------------------------------------------------------------------------
\* directus-client.ts: request()
\* ------------------------------------------------------------------------
\* arrays and null as request bodies
Arr(items) == [t |-> "array", v |-> items]
Null       == [t |-> "null", v |-> <<>>]

\* JavaScript truthiness of a request body
DataTruthy(d) ==
  /\ d.t \notin {"undefined", "null"}
  /\ ~(d.t = "string" /\ d.v = <<>>)
  /\ ~(d.t = "number" /\ d.v = <<"0">>)

NoRequest == [method |-> "", url |-> <<>>, headers |-> {}, hasBody |-> FALSE, body |-> Undef]

\* a request() that serializes whatever a DELETE is given
FetchCall_BodyOnAnyDelete(c, method, endpoint, data) ==
  LET attach == DataTruthy(data) /\ method \in {"POST", "PATCH", "PUT", "DELETE"}
  IN  [method  |-> method,
       url     |-> c.baseUrl \o endpoint,
       headers |-> {<<"Content-Type", <<"application/json">>>>}
                     \cup (IF c.authHeaders.has
                             THEN {<<"Authorization", c.authHeaders.Authorization>>}
                             ELSE {}),
       hasBody |-> attach,
       body    |-> IF attach THEN data ELSE Undef]

\* request(): the url and the options handed to fetch
FetchCall(c, method, endpoint, data) ==
  LET attach == \/ (DataTruthy(data) /\ method \in {"POST", "PATCH", "PUT"})
                \/ (DataTruthy(data) /\ method = "DELETE" /\ data.t = "array")
  IN  [method  |-> method,
       url     |-> c.baseUrl \o endpoint,
       headers |-> {<<"Content-Type", <<"application/json">>>>}
                     \cup (IF c.authHeaders.has
                             THEN {<<"Authorization", c.authHeaders.Authorization>>}
                             ELSE {}),
       hasBody |-> attach,
       body    |-> IF attach THEN data ELSE Undef]

\* what fetch can answer
Responses ==
  { [kind |-> "ok",    status |-> "200", statusText |-> "OK",          body |-> "payload"],
    [kind |-> "ok",    status |-> "204", statusText |-> "No Content",  body |-> ""],
    [kind |-> "notOk", status |-> "404", statusText |-> "Not Found",   body |-> "errors[0].message"],
    [kind |-> "notOk", status |-> "502", statusText |-> "Bad Gateway", body |-> "unparseable"],
    [kind |-> "throw", status |-> "",    statusText |-> "",            body |-> "Network error"] }

\* request() after fetch settles: the value it resolves to or the message of
\* the Error it rejects with
RequestOutcome(resp) ==
  CASE resp.kind = "throw" ->
         [ok |-> FALSE, value |-> "", error |-> <<"Directus API error: ", resp.body>>]
    [] resp.kind = "notOk" ->
         [ok |-> FALSE, value |-> "",
          error |-> <<"Directus API error: ",
                      IF resp.body = "errors[0].message" THEN "Not found" ELSE resp.statusText>>]
    [] resp.kind = "ok" /\ resp.status = "204" ->
         [ok |-> TRUE, value |-> "{success: true}", error |-> <<>>]
    [] resp.kind = "ok" /\ resp.status # "204" ->
         [ok |-> TRUE, value |-> resp.body, error |-> <<>>]

\* ------------------------------------------------------------------------
\* directus-client.ts: request(), one await at a time
\* ------------------------------------------------------------------------
ApiErrorPrefix == "Directus API error: "

\* response.ok: the status is in the range 200-299
ResponseOk(resp) == resp.status >= 200 /\ resp.status <= 299

\* response.status === 204
IsNoContent_Never(resp) == FALSE

IsNoContent(resp) == resp.status = 204

\* a || b on optional strings
OrElse(a, b) == IF Truthy(a) THEN a ELSE b

\* d?.errors?.[0]?.message of a parsed body or a caught error
FirstErrorMessage(d) ==
  IF ~d.isNull /\ d.hasErrors /\ Len(d.errors) > 0 /\ d.errors[1].hasMessage
    THEN d.errors[1].message ELSE Undefined

\* d?.message
GenericMessage(d) == IF ~d.isNull /\ d.hasMessage THEN d.message ELSE Undefined

\* the empty object the .catch(() => ({})) of the error-body parse yields
EmptyObject == [isNull |-> FALSE, hasErrors |-> FALSE, errors |-> <<>>,
                hasMessage |-> FALSE, message |-> ""]

\* an error-message choice that prefers the generic message field
ErrorMessageOf_GenericFirst(errorData, statusText) ==
  OrElse(GenericMessage(errorData), OrElse(FirstErrorMessage(errorData), statusText))

\* errorData?.errors?.[0]?.message || errorData?.message || response.statusText
ErrorMessageOf(errorData, statusText) ==
  OrElse(FirstErrorMessage(errorData), OrElse(GenericMessage(errorData), statusText))

\* new Error(`Directus API error: ${errorMessage}`)
ApiError(msg) == [isNull |-> FALSE, hasErrors |-> FALSE, errors |-> <<>>,
                  hasMessage |-> TRUE, message |-> msg, parts |-> <<ApiErrorPrefix, msg>>]

\* an Error the runtime threw, with its message
RuntimeError(msg) == [isNull |-> FALSE, hasErrors |-> FALSE, errors |-> <<>>,
                      hasMessage |-> TRUE, message |-> msg, parts |-> <<msg>>]

\* error.message.includes('Directus API error:')
IncludesApiError(err) == InSeq(ApiErrorPrefix, err.parts)

NoOutcome == [settled |-> FALSE, ok |-> FALSE, value |-> "", error |-> <<>>]
Resolved(value) == [settled |-> TRUE, ok |-> TRUE, value |-> value, error |-> <<>>]
Rejected(parts) == [settled |-> TRUE, ok |-> FALSE, value |-> "", error |-> parts]

\* a catch block that wraps whatever it caught
CatchBlock_AlwaysWrap(err) == Rejected(<<ApiErrorPrefix>> \o err.parts)

\* a catch block that swallows the failure
CatchBlock_Swallow(err) == Resolved("undefined")

\* the catch block of request(): rethrow what request() threw itself, wrap the rest
CatchBlock(err) ==
  IF IncludesApiError(err)
    THEN Rejected(err.parts)
    ELSE Rejected(<<ApiErrorPrefix, OrElse(FirstErrorMessage(err),
                                          OrElse(GenericMessage(err), "String(error)"))>>)

NoHttp == [status |-> 0, statusText |-> ""]
NoError == [isNull |-> TRUE, hasErrors |-> FALSE, errors |-> <<>>,
            hasMessage |-> FALSE, message |-> "", parts |-> <<>>]
NoBody == [rejects |-> FALSE, data |-> EmptyObject]

\* an invocation of request() that has not started
NoRq == [pc |-> "off", method |-> "", endpoint |-> <<>>, data |-> Undef,
         call |-> NoRequest, fetches |-> 0, jsonCalls |-> 0,
         resp |-> NoHttp, body |-> NoBody, caught |-> NoError, out |-> NoOutcome]

\* request() from its entry to `await fetch(url, options)`
RequestCall ==
  /\ rq.pc = "call"
  /\ rq' = [rq EXCEPT !.pc = "fetching",
                      !.call = FetchCall(client, rq.method, rq.endpoint, rq.data),
                      !.fetches = @ + 1]

\* fetch resolved with a response: the branch on response.ok and on the status
AfterResponse(r, resp) ==
  IF ~ResponseOk(resp)
    THEN [r EXCEPT !.pc = "errorBody", !.resp = resp, !.jsonCalls = @ + 1]
  ELSE IF IsNoContent(resp)
    THEN [r EXCEPT !.pc = "done", !.resp = resp, !.out = Resolved("{success: true}")]
  ELSE [r EXCEPT !.pc = "successBody", !.resp = resp, !.jsonCalls = @ + 1]

FetchResolves(resp) ==
  /\ rq.pc = "fetching"
  /\ rq' = AfterResponse(rq, resp)

\* fetch rejected: the catch block runs
FetchRejects(err) ==
  /\ rq.pc = "fetching"
  /\ rq' = [rq EXCEPT !.pc = "done", !.caught = err, !.out = CatchBlock(err)]

\* `await response.json().catch(() => ({}))` settled for a non-success status:
\* the Error is thrown inside the try block, so the catch block sees it
ErrorBodySettles(body) ==
  /\ rq.pc = "errorBody"
  /\ LET errorData == IF body.rejects THEN EmptyObject ELSE body.data
         err == ApiError(ErrorMessageOf(errorData, rq.resp.statusText))
     IN  rq' = [rq EXCEPT !.pc = "done", !.body = body, !.caught = err,
                          !.out = CatchBlock(err)]

\* `await response.json()` settled for a success status
SuccessBodyResolves(value) ==
  /\ rq.pc = "successBody"
  /\ rq' = [rq EXCEPT !.pc = "done", !.out = Resolved(value)]

SuccessBodyRejects(err) ==
  /\ rq.pc = "successBody"
  /\ rq' = [rq EXCEPT !.pc = "done", !.body = [rejects |-> TRUE, data |-> EmptyObject],
                      !.caught = err, !.out = CatchBlock(err)]

\* ------------------------------------------------------------------------
\* directus-client.ts: buildQueryString
\* ------------------------------------------------------------------------
\* Strings are sequences of tokens: a token is one character that URL encoding
\* changes (" ", ",", "{", ...) or a run of characters it leaves alone.

\* the keys of the bag in the order buildQueryString appends them
QueryKeys == <<"fields", "filter", "search", "sort", "limit", "offset", "page",
               "aggregate", "groupBy", "deep", "meta", "export">>
QueryKeySet == {QueryKeys[i] : i \in 1..Len(QueryKeys)}

\* values of a bag entry
QUndef      == [t |-> "undefined", s |-> <<>>, items |-> <<>>, n |-> 0, obj |-> <<>>]
QStr(s)     == [t |-> "string", s |-> s, items |-> <<>>, n |-> 0, obj |-> <<>>]
QArr(items) == [t |-> "array", s |-> <<>>, items |-> items, n |-> 0, obj |-> <<>>]
QNum(n)     == [t |-> "number", s |-> <<>>, items |-> <<>>, n |-> n, obj |-> <<>>]
QObj(obj)   == [t |-> "object", s |-> <<>>, items |-> <<>>, n |-> 0, obj |-> obj]

\* entries of an object: a string, a number or one nested object of leaves
Leaf(key, t, s, n) == [key |-> key, t |-> t, s |-> s, n |-> n]
Entry(key, t, s, n, obj) == [key |-> key, t |-> t, s |-> s, n |-> n, obj |-> obj]

\* JavaScript truthiness of a bag entry
QTruthy(v) ==
  CASE v.t = "undefined" -> FALSE
    [] v.t = "string"    -> v.s # <<>>
    [] v.t = "number"    -> v.n # 0
    [] OTHER             -> TRUE

DigitChar == <<"0", "1", "2", "3", "4", "5", "6", "7", "8", "9">>

RECURSIVE NatDigits(_)
NatDigits(n) ==
  IF n < 10 THEN <<DigitChar[n + 1]>>
  ELSE NatDigits(n \div 10) \o <<DigitChar[(n % 10) + 1]>>

\* String(n) of an integer
NumberToString(n) == IF n < 0 THEN <<"-">> \o NatDigits(0 - n) ELSE NatDigits(n)

\* Array.prototype.join
RECURSIVE JoinTokens(_, _)
JoinTokens(items, sep) ==
  IF items = <<>> THEN <<>>
  ELSE IF Len(items) = 1 THEN items[1]
  ELSE items[1] \o sep \o JoinTokens(Tail(items), sep)

\* JSON.stringify of a string without characters to escape
Quote(s) == <<"\"">> \o s \o <<"\"">>

StringifyLeaf(e) == IF e.t = "number" THEN NumberToString(e.n) ELSE Quote(e.s)

StringifyLeaves(leaves) ==
  <<"{">> \o JoinTokens([i \in 1..Len(leaves) |->
                           Quote(<<leaves[i].key>>) \o <<":">> \o StringifyLeaf(leaves[i])],
                        <<",">>)
          \o <<"}">>

\* JSON.stringify of an object
StringifyObject(obj) ==
  <<"{">> \o JoinTokens([i \in 1..Len(obj) |->
                           Quote(<<obj[i].key>>) \o <<":">> \o
                             (IF obj[i].t = "object" THEN StringifyLeaves(obj[i].obj)
                              ELSE StringifyLeaf(obj[i]))],
                        <<",">>)
          \o <<"}">>

\* String(v), as URLSearchParams.append coerces its value
ToStr(v) ==
  CASE v.t = "string" -> v.s
    [] v.t = "number" -> NumberToString(v.n)
    [] v.t = "array"  -> JoinTokens(v.items, <<",">>)
    [] v.t = "object" -> <<"[object Object]">>
    [] OTHER          -> <<"undefined">>

\* JSON.stringify(v)
JSONStringify(v) ==
  CASE v.t = "object" -> StringifyObject(v.obj)
    [] v.t = "number" -> NumberToString(v.n)
    [] v.t = "array"  -> <<"[">> \o JoinTokens([i \in 1..Len(v.items) |-> Quote(v.items[i])],
                                               <<",">>) \o <<"]">>
    [] OTHER          -> Quote(v.s)

\* a serializer that escapes nothing
EncodeToken_NoEscape(c) == c

\* the application/x-www-form-urlencoded serializer of URLSearchParams, on one token
EncodeToken(c) ==
  CASE c = " "  -> "+"
    [] c = ","  -> "%2C"
    [] c = "{"  -> "%7B"
    [] c = "}"  -> "%7D"
    [] c = "["  -> "%5B"
    [] c = "]"  -> "%5D"
    [] c = "\"" -> "%22"
    [] c = ":"  -> "%3A"
    [] c = "+"  -> "%2B"
    [] c = "&"  -> "%26"
    [] c = "="  -> "%3D"
    [] c = "%"  -> "%25"
    [] OTHER    -> c

Encode(s) == [i \in 1..Len(s) |-> EncodeToken(s[i])]

\* URLSearchParams.prototype.toString
SearchParamsToString(pairs) ==
  JoinTokens([i \in 1..Len(pairs) |-> Encode(<<pairs[i].key>>) \o <<"=">> \o Encode(pairs[i].value)],
             <<"&">>)

\* Array.isArray(x) ? x.join(',') : x
ListValue_FirstOnly(v) ==
  IF v.t = "array" THEN (IF v.items = <<>> THEN <<>> ELSE v.items[1]) ELSE ToStr(v)

ListValue(v) == IF v.t = "array" THEN JoinTokens(v.items, <<",">>) ELSE ToStr(v)

\* the condition under which buildQueryString appends the key; the mutant
\* tests limit, offset and page for truthiness like the rest
Appends_AllTruthy(k, v) == QTruthy(v)

Appends(k, v) ==
  IF k \in {"limit", "offset", "page"} THEN v.t # "undefined" ELSE QTruthy(v)

\* the value buildQueryString appends for the key
AppendedValue(k, v) ==
  CASE k \in {"fields", "sort", "groupBy"}    -> ListValue(v)
    [] k \in {"filter", "aggregate", "deep"}  -> JSONStringify(v)
    [] k \in {"limit", "offset", "page"}      -> ToStr(v)
    [] OTHER                                  -> ToStr(v)

\* the contents of queryParams after the twelve conditional appends
AppendedPairs(params) ==
  LET present == SelectSeq(QueryKeys, LAMBDA k : Appends(k, params[k]))
  IN  [i \in 1..Len(present) |->
         [key |-> present[i], value |-> AppendedValue(present[i], params[present[i]])]]

\* const query = queryParams.toString(); return query ? `?${query}` : ''
QueryText(pairs) ==
  LET query == SearchParamsToString(pairs)
  IN  IF query # <<>> THEN <<"?">> \o query ELSE <<>>

buildQueryString(params) == QueryText(AppendedPairs(params))

EmptyBag == [k \in QueryKeySet |-> QUndef]

NoQs == [pc |-> "off", params |-> EmptyBag, pairs |-> <<>>, out |-> <<>>]
\* ------------------------------------------------------------------------
\* directus-client.ts: createResourceMethods
\* ------------------------------------------------------------------------
StandardMethods == {"list", "get", "create", "update", "delete"}
BulkMethods     == {"bulkCreate", "bulkUpdate", "bulkDelete"}

\* the names of the specialMethods the client's resources are built with
SpecialMethodNames(special) ==
  CASE special = "items" ->
         {"query", "get", "create", "update", "delete", "bulkCreate", "bulkUpdate", "bulkDelete"}
    [] special = "flows" ->
         {"list", "get", "create", "createFlows", "update", "updateFlows", "delete",
          "deleteFlows", "triggerFlow"}
    [] special = "operations" ->
         {"list", "get", "create", "createOperations", "update", "updateOperations", "delete",
          "deleteOperations"}
    [] OTHER -> {}

\* const { supportsBulk = false, specialMethods = {} } = options
SupportsBulk_Always(opt) == TRUE

SupportsBulk(opt) == opt.given /\ opt.supportsBulk = "true"

\* a factory that uses the base path as it was given
NormalizedBasePath_AsGiven(basePath) == basePath

\* basePath.startsWith('/') ? basePath : `/${basePath}`
NormalizedBasePath(basePath) ==
  IF Len(basePath) > 0 /\ basePath[1] = "/" THEN basePath ELSE <<"/">> \o basePath

\* the object createResourceMethods returns: each name with the code behind
\* it; in the object literal a later spread replaces an earlier key
createResourceMethods(basePath, opt) ==
  LET special  == IF opt.given THEN SpecialMethodNames(opt.special) ELSE {}
      factory  == StandardMethods \cup (IF SupportsBulk(opt) THEN BulkMethods ELSE {})
  IN  [normalizedBasePath |-> NormalizedBasePath(basePath),
       methods |-> {[name |-> n, impl |-> "factory"] : n \in factory \ special}
                     \cup {[name |-> n, impl |-> "special"] : n \in special}]

NoResourceCall == [name |-> "", id |-> "", params |-> EmptyBag, hasParams |-> FALSE,
                   data |-> Undef, outcome |-> "none",
                   req |-> [method |-> "", endpoint |-> <<>>, data |-> Undef]]

\* the request a method written by the factory hands to client.request
FactoryRequest(base, name, id, hasParams, params, data) ==
  LET queryString == IF hasParams THEN buildQueryString(params) ELSE <<>>
  IN  CASE name = "list"   -> [method |-> "GET", endpoint |-> base \o queryString, data |-> Undef]
        [] name = "get"    -> [method |-> "GET", endpoint |-> base \o <<"/", id>> \o queryString,
                               data |-> Undef]
        [] name = "create" -> [method |-> "POST", endpoint |-> base, data |-> data]
        [] name = "update" -> [method |-> "PATCH", endpoint |-> base \o <<"/", id>>, data |-> data]
        [] name = "delete" -> [method |-> "DELETE", endpoint |-> base \o <<"/", id>>, data |-> Undef]
        [] name = "bulkCreate" -> [method |-> "POST", endpoint |-> base, data |-> data]
        [] name = "bulkUpdate" -> [method |-> "PATCH", endpoint |-> base, data |-> data]
        [] name = "bulkDelete" -> [method |-> "DELETE", endpoint |-> base, data |-> data]

\* calling resource[name](client, ...): a missing property is not a function
ResourceCall(r, name, id, hasParams, params, data) ==
  LET found == {m \in r.methods : m.name = name}
      call  == [NoResourceCall EXCEPT !.name = name, !.id = id, !.hasParams = hasParams,
                                      !.params = params, !.data = data]
  IN  IF found = {} THEN [call EXCEPT !.outcome = "TypeError"]
      ELSE IF (CHOOSE m \in found : TRUE).impl = "special"
        THEN [call EXCEPT !.outcome = "special"]
      ELSE [call EXCEPT !.outcome = "request",
                        !.req = FactoryRequest(r.normalizedBasePath, name, id, hasParams,
                                               params, data)]

NoOptions == [given |-> FALSE, supportsBulk |-> "omitted", special |-> "none"]

NoRf == [pc |-> "off", basePath |-> <<>>, options |-> NoOptions,
         normalizedBasePath |-> <<>>, methods |-> {}, call |-> NoResourceCall]

\* ------------------------------------------------------------------------
\* The tool handlers (tools/*.ts through tool-helpers.ts)
\* ------------------------------------------------------------------------
\* the request a tool's handler makes through the client, from the arguments
\* it is handed
ToolRequest(name, a) ==
  CASE name = "list_collections" ->
         [method |-> "GET", endpoint |-> <<"/collections">>, data |-> Undef]
    [] name = "create_item" ->
         [method |-> "POST", endpoint |-> <<"/items/">> \o Get(a, "collection").v,
          data |-> Get(a, "data")]
    [] name = "delete_item" ->
         [method |-> "DELETE",
          endpoint |-> <<"/items/">> \o Get(a, "collection").v \o <<"/">> \o Get(a, "id").v,
          data |-> Undef]
    [] name = "delete_flow" ->
         [method |-> "DELETE", endpoint |-> <<"/flows/">> \o Get(a, "id").v, data |-> Undef]

\* config.successMessage(args) of the action tools
SuccessMessage(name, a) ==
  CASE name = "delete_item" ->
         <<"Item ">> \o Get(a, "id").v \o <<" deleted from collection \"">>
           \o Get(a, "collection").v \o <<"\"">>
    [] name = "delete_flow" -> <<"Flow ">> \o Get(a, "id").v \o <<" deleted successfully">>

\* the text of the content entry a wrapped handler resolves to
ResultText(tool, a, value) ==
  IF tool.wrapper = "createActionTool"
    THEN SuccessMessage(tool.name, a)
    ELSE <<"JSON.stringify(", value, ", null, 2)">>

\* ------------------------------------------------------------------------
\* index.ts: the CallToolRequestSchema handler
\* ------------------------------------------------------------------------
NoSlot == [busy |-> FALSE, name |-> "", args |-> ArgsMissing, handlerArgs |-> ArgsMissing,
           events |-> <<>>, req |-> NoRequest]

NoResponse == [seen |-> FALSE, name |-> "", args |-> ArgsMissing, handlerArgs |-> ArgsMissing,
               events |-> <<>>, ok |-> FALSE, text |-> <<>>, cause |-> <<>>,
               req |-> NoRequest]

\* a dispatcher that hands the handler the arguments as they arrived
HandlerInput_Raw(parsed, args) == args

\* tool.handler(directusClient, validatedArgs)
HandlerInput(parsed, args) == parsed.value

\* the handler of a tool call up to its first await: a failure thrown before
\* any request, or the call left waiting for its fetch
CallStart(name, args) ==
  LET t == FindEnabledTool(name)
  IN  IF ~t.found
        THEN [running |-> FALSE, events |-> <<>>, error |-> LookupError(name),
              handlerArgs |-> ArgsMissing, req |-> NoRequest]
      ELSE
        LET parsed == ZodParse(name, args)
        IN  IF ~parsed.ok
              THEN [running |-> FALSE, events |-> <<"parse">>,
                    error |-> <<"Invalid arguments: ">> \o JoinMessages(parsed.issues, ", "),
                    handlerArgs |-> ArgsMissing, req |-> NoRequest]
              ELSE
                LET ha == HandlerInput(parsed, args)
                    r  == ToolRequest(name, ha)
                IN  [running |-> TRUE, events |-> <<"parse", "handler", "fetch">>,
                     error |-> <<>>, handlerArgs |-> ha,
                     req |-> FetchCall(client, r.method, r.endpoint, r.data)]

\* the handler of a tool call after its fetch settled
CallFinish(slot, resp) ==
  LET out == RequestOutcome(resp)
      t   == Find(allTools, slot.name).tool
  IN  IF out.ok
        THEN [ok |-> TRUE, text |-> ResultText(t, slot.handlerArgs, out.value), cause |-> <<>>]
        ELSE [ok |-> FALSE, text |-> <<"Tool execution failed: ">> \o out.error,
              cause |-> out.error]

\* ------------------------------------------------------------------------
\* tool-helpers.ts: createTool and createActionTool
\* ------------------------------------------------------------------------
\* JSON.stringify(v, null, 2): one entry per line, two blanks per level
Indent(level) == [i \in 1..level |-> "  "]

PrettyLeaves(leaves, level) ==
  IF leaves = <<>> THEN <<"{", "}">>
  ELSE <<"{", "\n">>
       \o JoinTokens([i \in 1..Len(leaves) |->
                        Indent(level + 1) \o Quote(<<leaves[i].key>>) \o <<":", " ">>
                          \o StringifyLeaf(leaves[i])],
                     <<",", "\n">>)
       \o <<"\n">> \o Indent(level) \o <<"}">>

PrettyObject(obj) ==
  IF obj = <<>> THEN <<"{", "}">>
  ELSE <<"{", "\n">>
       \o JoinTokens([i \in 1..Len(obj) |->
                        Indent(1) \o Quote(<<obj[i].key>>) \o <<":", " ">>
                          \o (IF obj[i].t = "object" THEN PrettyLeaves(obj[i].obj, 1)
                              ELSE StringifyLeaf(obj[i]))],
                     <<",", "\n">>)
       \o <<"\n", "}">>

PrettyArray(items) ==
  IF items = <<>> THEN <<"[", "]">>
  ELSE <<"[", "\n">>
       \o JoinTokens([i \in 1..Len(items) |-> Indent(1) \o Quote(items[i])], <<",", "\n">>)
       \o <<"\n", "]">>

\* the text entry of a result: JSON.stringify(undefined) is undefined, not a string
NoText == [isString |-> FALSE, tokens |-> <<>>]
Text(tokens) == [isString |-> TRUE, tokens |-> tokens]

\* a wrapper that serializes without indentation
StringifyPretty_Compact(v) ==
  IF v.t = "undefined" THEN NoText ELSE Text(JSONStringify(v))

StringifyPretty(v) ==
  CASE v.t = "undefined" -> NoText
    [] v.t = "object"    -> Text(PrettyObject(v.obj))
    [] v.t = "array"     -> Text(PrettyArray(v.items))
    [] v.t = "number"    -> Text(NumberToString(v.n))
    [] OTHER             -> Text(Quote(v.s))

\* a wrapper that forgets the toolsets of the definition
WrappedTool_NoToolsets(def, wrapper) ==
  [name |-> def.name, description |-> def.description, inputSchema |-> def.inputSchema,
   toolsets |-> <<>>, handler |-> wrapper]

\* the object createTool / createActionTool return
WrappedTool(def, wrapper) ==
  [name |-> def.name, description |-> def.description, inputSchema |-> def.inputSchema,
   toolsets |-> def.toolsets, handler |-> wrapper]

createTool(def) == WrappedTool(def, "createTool")
createActionTool(def) == WrappedTool(def, "createActionTool")

NoResult == [settled |-> FALSE, ok |-> FALSE, content |-> <<>>, error |-> <<>>]

\* the wrapping handler once `await config.handler(client, args)` resolved to value
WrapperResolved(t, value) ==
  IF t.tool.handler = "createActionTool"
    THEN [t EXCEPT !.pc = "done", !.inner = "resolved", !.value = value,
                   !.events = @ \o <<"handler resolved", "successMessage">>,
                   !.result = [settled |-> TRUE, ok |-> TRUE, error |-> <<>>,
                               content |-> <<[type |-> "text",
                                              text |-> Text(SuccessMessage(t.def.name, t.args))]>>]]
    ELSE [t EXCEPT !.pc = "done", !.inner = "resolved", !.value = value,
                   !.events = @ \o <<"handler resolved">>,
                   !.result = [settled |-> TRUE, ok |-> TRUE, error |-> <<>>,
                               content |-> <<[type |-> "text", text |-> StringifyPretty(value)]>>]]

\* a wrapper that answers with the success message whatever the handler did
WrapperRejected_Swallow(t, err) ==
  [t EXCEPT !.pc = "done", !.inner = "rejected", !.innerError = err,
            !.events = @ \o <<"handler rejected", "successMessage">>,
            !.result = [settled |-> TRUE, ok |-> TRUE, error |-> <<>>,
                        content |-> <<[type |-> "text",
                                       text |-> Text(IF t.tool.handler = "createActionTool"
                                                       THEN SuccessMessage(t.def.name, t.args)
                                                       ELSE <<"undefined">>)]>>]]

\* the wrapping handler once `await config.handler(client, args)` rejected: the
\* await rethrows and nothing after it runs
WrapperRejected(t, err) ==
  [t EXCEPT !.pc = "done", !.inner = "rejected", !.innerError = err,
            !.events = @ \o <<"handler rejected">>,
            !.result = [settled |-> TRUE, ok |-> FALSE, content |-> <<>>, error |-> err]]

NoDef == [name |-> "", description |-> "", inputSchema |-> "", toolsets |-> <<>>,
          handler |-> "", successMessage |-> ""]

NoTh == [pc |-> "off", kind |-> "", def |-> NoDef, tool |-> WrappedTool(NoDef, ""),
         args |-> ArgsMissing, events |-> <<>>, inner |-> "none", value |-> QUndef,
         innerError |-> <<>>, result |-> NoResult]
\* ------------------------------------------------------------------------
\* tools/schema-tools.ts: delete_relation; tools/flow-tools.ts: trigger_flow
\* ------------------------------------------------------------------------
\* the id of a relation of the /relations response: absent or a number
NoId     == [t |-> "undefined", n |-> 0]
IdNum(n) == [t |-> "number", n |-> n]
IdTruthy(v) == v.t = "number" /\ v.n # 0

\* `${id}` in a template literal
TemplateText(v) == IF v.t = "undefined" THEN <<"undefined">> ELSE NumberToString(v.n)

Relation(collection, field, id, hasMeta, metaId) ==
  [collection |-> collection, field |-> field, id |-> id, hasMeta |-> hasMeta, metaId |-> metaId]
NoRelation == Relation("", "", NoId, FALSE, NoId)

\* the value request() resolved to: whether it has a data property, and the list
RelationsBody(hasData, data) == [hasData |-> hasData, data |-> data]
NoRelations == RelationsBody(FALSE, <<>>)

\* a handler that reads only relation.id
RelationId_IdOnly(r) == r.id

\* relation.id || relation.meta?.id
RelationId(r) == IF IdTruthy(r.id) THEN r.id ELSE IF r.hasMeta THEN r.metaId ELSE NoId

\* relations.data?.find((r) => r.collection === args.collection && r.field === args.field)
FindRelation(relations, args) ==
  LET hits == IF relations.hasData
                THEN {i \in 1..Len(relations.data) :
                        /\ relations.data[i].collection = args.collection
                        /\ relations.data[i].field = args.field}
                ELSE {}
  IN  IF hits = {} THEN [found |-> FALSE, relation |-> NoRelation]
      ELSE [found |-> TRUE,
            relation |-> relations.data[CHOOSE i \in hits : \A j \in hits : i <= j]]

\* what a method of the client hands to this.request
ClientRequest(method, endpoint, data) == [method |-> method, endpoint |-> endpoint, data |-> data]

\* DirectusClient.getRelations(): this.relations.list(this)
getRelations ==
  FactoryRequest(createResourceMethods(<<"relations">>, NoOptions).normalizedBasePath,
                 "list", "", FALSE, EmptyBag, Undef)

\* DirectusClient.deleteRelation(id): this.relations.delete(this, id)
deleteRelation(id) ==
  ClientRequest("DELETE",
                createResourceMethods(<<"relations">>, NoOptions).normalizedBasePath
                  \o <<"/">> \o TemplateText(id),
                Undef)

\* the queryParams argument of triggerFlow: undefined or an object
NoQueryParams == [given |-> FALSE, bag |-> EmptyBag]

\* a triggerFlow that hands bodyData to request() whatever the method
triggerFlow_BodyAlways(method, id, bodyData, queryParams) ==
  LET queryString == IF queryParams.given THEN buildQueryString(queryParams.bag) ELSE <<>>
      endpoint    == <<"/flows/trigger/", id>> \o queryString
  IN  ClientRequest(IF method = "POST" THEN "POST" ELSE "GET", endpoint, bodyData)

\* flows.triggerFlow(client, method, id, bodyData, queryParams)
triggerFlow(method, id, bodyData, queryParams) ==
  LET queryString == IF queryParams.given THEN buildQueryString(queryParams.bag) ELSE <<>>
      endpoint    == <<"/flows/trigger/", id>> \o queryString
  IN  IF method = "POST"
        THEN ClientRequest("POST", endpoint, bodyData)
        ELSE ClientRequest("GET", endpoint, Undef)

NoToolArgs == [collection |-> "", field |-> "", id |-> "", method |-> "undefined",
               data |-> Undef, fields |-> QUndef, meta |-> QUndef]

\* the arguments the trigger_flow handler calls client.triggerFlow with
NoFlowCall == [made |-> FALSE, method |-> "", id |-> "", bodyData |-> Undef,
               queryParams |-> NoQueryParams]

\* a handler whose method defaults to POST
TriggerFlowCall_DefaultPost(args) ==
  LET method == IF args.method = "undefined" THEN "POST" ELSE args.method
      keys   == {k \in {"fields", "meta"} : QTruthy(args[k])}
  IN  [made |-> TRUE, method |-> method, id |-> args.id,
       bodyData |-> IF method = "POST" THEN args.data ELSE Undef,
       queryParams |-> IF keys # {}
                         THEN [given |-> TRUE,
                               bag |-> [k \in QueryKeySet |->
                                          IF k \in keys THEN args[k] ELSE QUndef]]
                         ELSE NoQueryParams]

\* the handler of trigger_flow up to client.triggerFlow(...)
TriggerFlowCall(args) ==
  LET method == IF args.method = "undefined" THEN "GET" ELSE args.method
      keys   == {k \in {"fields", "meta"} : QTruthy(args[k])}
  IN  [made |-> TRUE, method |-> method, id |-> args.id,
       bodyData |-> IF method = "POST" THEN args.data ELSE Undef,
       queryParams |-> IF keys # {}
                         THEN [given |-> TRUE,
                               bag |-> [k \in QueryKeySet |->
                                          IF k \in keys THEN args[k] ELSE QUndef]]
                         ELSE NoQueryParams]

\* new Error(`Relation not found for ${args.collection}.${args.field}`)
RelationNotFound(args) == <<"Relation not found", " for ", args.collection, ".", args.field>>

NoTl == [pc |-> "off", name |-> "", args |-> NoToolArgs, call |-> NoFlowCall,
         requests |-> <<>>, relations |-> NoRelations, gotRelations |-> FALSE,
         value |-> NoRelations, error |-> <<>>]
\* ------------------------------------------------------------------------
\* The resource methods of DirectusClient: the class built on
\* createResourceMethods and the class with hand-written methods
\* ------------------------------------------------------------------------
\* the arguments of a method: name, collection or id; field or item id; the
\* body; the params object; the method of triggerFlow
NoMethodArgs == [a |-> "", b |-> "", data |-> Undef, hasParams |-> FALSE, params |-> EmptyBag,
                 method |-> "GET"]

\* the hand-written buildQueryString: the same appends in the same order, but
\* none for export
HandWrittenPairs(params) ==
  LET keys    == SelectSeq(QueryKeys, LAMBDA k : k # "export")
      present == SelectSeq(keys, LAMBDA k : Appends(k, params[k]))
  IN  [i \in 1..Len(present) |->
         [key |-> present[i], value |-> AppendedValue(present[i], params[present[i]])]]

HandWrittenBuildQueryString(params) == QueryText(HandWrittenPairs(params))

\* a method of the hand-written class: the arguments of its this.request call
HandWrittenRequest(name, x) ==
  LET queryString == IF x.hasParams THEN HandWrittenBuildQueryString(x.params) ELSE <<>>
  IN  CASE name = "getCollections"   -> ClientRequest("GET", <<"/", "collections">>, Undef)
        [] name = "getCollection"    -> ClientRequest("GET", <<"/", "collections", "/", x.a>>, Undef)
        [] name = "createCollection" -> ClientRequest("POST", <<"/", "collections">>, x.data)
        [] name = "updateCollection" -> ClientRequest("PATCH", <<"/", "collections", "/", x.a>>, x.data)
        [] name = "deleteCollection" -> ClientRequest("DELETE", <<"/", "collections", "/", x.a>>, Undef)
        [] name = "getFields"        -> ClientRequest("GET", <<"/fields/", x.a>>, Undef)
        [] name = "getField"         -> ClientRequest("GET", <<"/fields/", x.a, "/", x.b>>, Undef)
        [] name = "createField"      -> ClientRequest("POST", <<"/fields/", x.a>>, x.data)
        [] name = "updateField"      -> ClientRequest("PATCH", <<"/fields/", x.a, "/", x.b>>, x.data)
        [] name = "deleteField"      -> ClientRequest("DELETE", <<"/fields/", x.a, "/", x.b>>, Undef)
        [] name = "getRelations"     -> ClientRequest("GET", <<"/", "relations">>, Undef)
        [] name = "getRelation"      -> ClientRequest("GET", <<"/", "relations", "/", x.a>>, Undef)
        [] name = "createRelation"   -> ClientRequest("POST", <<"/", "relations">>, x.data)
        [] name = "updateRelation"   -> ClientRequest("PATCH", <<"/", "relations", "/", x.a>>, x.data)
        [] name = "deleteRelation"   -> ClientRequest("DELETE", <<"/", "relations", "/", x.a>>, Undef)
        [] name = "queryItems"       -> ClientRequest("GET", <<"/items/", x.a>> \o queryString, Undef)
        [] name = "getItem"          ->
             ClientRequest("GET", <<"/items/", x.a, "/", x.b>> \o queryString, Undef)
        [] name = "createItem"       -> ClientRequest("POST", <<"/items/", x.a>>, x.data)
        [] name = "updateItem"       -> ClientRequest("PATCH", <<"/items/", x.a, "/", x.b>>, x.data)
        [] name = "deleteItem"       -> ClientRequest("DELETE", <<"/items/", x.a, "/", x.b>>, Undef)
        [] name = "bulkCreateItems"  -> ClientRequest("POST", <<"/items/", x.a>>, x.data)
        [] name = "bulkUpdateItems"  -> ClientRequest("PATCH", <<"/items/", x.a>>, x.data)
        [] name = "bulkDeleteItems"  -> ClientRequest("DELETE", <<"/items/", x.a>>, x.data)
        [] name = "listFlows"        -> ClientRequest("GET", <<"/flows">> \o queryString, Undef)
        [] name = "getFlow"          -> ClientRequest("GET", <<"/flows/", x.a>> \o queryString, Undef)
        [] name = "createFlow"       -> ClientRequest("POST", <<"/flows">>, x.data)
        [] name = "createFlows"      -> ClientRequest("POST", <<"/flows">>, x.data)
        [] name = "updateFlow"       -> ClientRequest("PATCH", <<"/flows/", x.a>>, x.data)
        [] name = "updateFlows"      -> ClientRequest("PATCH", <<"/flows">>, x.data)
        [] name = "deleteFlow"       -> ClientRequest("DELETE", <<"/flows/", x.a>>, Undef)
        [] name = "deleteFlows"      -> ClientRequest("DELETE", <<"/flows">>, x.data)
        [] name = "triggerFlow"      ->
             IF x.method = "POST"
               THEN ClientRequest("POST", <<"/flows/trigger/", x.a>> \o queryString, x.data)
               ELSE ClientRequest("GET", <<"/flows/trigger/", x.a>> \o queryString, Undef)

\* this.collections / this.relations: a method written by the factory
PlainResourceRequest(basePath, name, x) ==
  ResourceCall(createResourceMethods(basePath, NoOptions), name, x.a, FALSE, EmptyBag, x.data).req

\* a method of the class built on createResourceMethods: the arguments of the
\* client.request call it ends in
FactoryBasedRequest(name, x) ==
  LET queryString == IF x.hasParams THEN buildQueryString(x.params) ELSE <<>>
  IN  CASE name = "getCollections"   -> PlainResourceRequest(<<"collections">>, "list", x)
        [] name = "getCollection"    -> PlainResourceRequest(<<"collections">>, "get", x)
        [] name = "createCollection" -> PlainResourceRequest(<<"collections">>, "create", x)
        [] name = "updateCollection" -> PlainResourceRequest(<<"collections">>, "update", x)
        [] name = "deleteCollection" -> PlainResourceRequest(<<"collections">>, "delete", x)
        [] name = "getFields"        -> ClientRequest("GET", <<"/fields/", x.a>>, Undef)
        [] name = "getField"         -> ClientRequest("GET", <<"/fields/", x.a, "/", x.b>>, Undef)
        [] name = "createField"      -> ClientRequest("POST", <<"/fields/", x.a>>, x.data)
        [] name = "updateField"      -> ClientRequest("PATCH", <<"/fields/", x.a, "/", x.b>>, x.data)
        [] name = "deleteField"      -> ClientRequest("DELETE", <<"/fields/", x.a, "/", x.b>>, Undef)
        [] name = "getRelations"     -> PlainResourceRequest(<<"relations">>, "list", x)
        [] name = "getRelation"      -> PlainResourceRequest(<<"relations">>, "get", x)
        [] name = "createRelation"   -> PlainResourceRequest(<<"relations">>, "create", x)
        [] name = "updateRelation"   -> PlainResourceRequest(<<"relations">>, "update", x)
        [] name = "deleteRelation"   -> PlainResourceRequest(<<"relations">>, "delete", x)
        [] name = "queryItems"       -> ClientRequest("GET", <<"/items/", x.a>> \o queryString, Undef)
        [] name = "getItem"          ->
             ClientRequest("GET", <<"/items/", x.a, "/", x.b>> \o queryString, Undef)
        [] name = "createItem"       -> ClientRequest("POST", <<"/items/", x.a>>, x.data)
        [] name = "updateItem"       -> ClientRequest("PATCH", <<"/items/", x.a, "/", x.b>>, x.data)
        [] name = "deleteItem"       -> ClientRequest("DELETE", <<"/items/", x.a, "/", x.b>>, Undef)
        [] name = "bulkCreateItems"  -> ClientRequest("POST", <<"/items/", x.a>>, x.data)
        [] name = "bulkUpdateItems"  -> ClientRequest("PATCH", <<"/items/", x.a>>, x.data)
        [] name = "bulkDeleteItems"  -> ClientRequest("DELETE", <<"/items/", x.a>>, x.data)
        [] name = "listFlows"        -> ClientRequest("GET", <<"/flows">> \o queryString, Undef)
        [] name = "getFlow"          -> ClientRequest("GET", <<"/flows/", x.a>> \o queryString, Undef)
        [] name = "createFlow"       -> ClientRequest("POST", <<"/flows">>, x.data)
        [] name = "createFlows"      -> ClientRequest("POST", <<"/flows">>, x.data)
        [] name = "updateFlow"       -> ClientRequest("PATCH", <<"/flows/", x.a>>, x.data)
        [] name = "updateFlows"      -> ClientRequest("PATCH", <<"/flows">>, x.data)
        [] name = "deleteFlow"       -> ClientRequest("DELETE", <<"/flows/", x.a>>, Undef)
        [] name = "deleteFlows"      -> ClientRequest("DELETE", <<"/flows">>, x.data)
        [] name = "triggerFlow"      ->
             triggerFlow(x.method, x.a, x.data,
                         [given |-> x.hasParams, bag |-> x.params])

NoBoth == [pc |-> "off", name |-> "", args |-> NoMethodArgs, factoryBased |-> <<>>,
           handWritten |-> <<>>]
NoList == [sent |-> FALSE, names |-> <<>>]

ToolOff == th = NoTh /\ tl = NoTl /\ both = NoBoth

LibOff == rq = NoRq /\ qs = NoQs /\ rf = NoRf /\ ToolOff

ServerOff ==
  /\ listed = NoList
  /\ pc = "off" /\ enabledToolsets = <<>> /\ enabledTools = <<>>
  /\ directusClient = FALSE /\ connected = FALSE
  /\ slots = [i \in 1..MaxInFlight |-> NoSlot]
  /\ lastResponse = NoResponse

InitToolsets ==
  /\ ClientOff /\ ServerOff /\ LibOff
  /\ parseOut = <<>> /\ parseWarn = "none" /\ filterOut = <<>>
  /\ \/ /\ tsPc = "parse"
        /\ \/ rawTokens = <<>> /\ envValue = EnvUndefined
           \/ \E toks \in SeqsUpTo(RawTokens, MaxTokens) :
                rawTokens = toks /\ envValue = EnvOf(toks)
        /\ tsTools = <<>> /\ tsActive = <<>>
     \/ /\ tsPc = "filter"
        /\ rawTokens = <<>> /\ envValue = EnvUndefined
        /\ tsTools \in Registries
        /\ tsActive \in ActiveLists

ApplyParseToolsets ==
  /\ tsPc = "parse"
  /\ tsPc' = "parsed"
  /\ parseOut' = parseToolsets(envValue)
  /\ parseWarn' = parseWarning(envValue)
  /\ UNCHANGED <<rawTokens, envValue, tsTools, tsActive, filterOut, clientVars, serverVars, libVars>>

ApplyFilterTools ==
  /\ tsPc = "filter"
  /\ tsPc' = "filtered"
  /\ filterOut' = filterToolsByToolsets(tsTools, tsActive)
  /\ UNCHANGED <<rawTokens, envValue, parseOut, parseWarn, tsTools, tsActive, clientVars, serverVars, libVars>>

NextToolsets == ApplyParseToolsets \/ ApplyFilterTools

vars == <<tsVars, clientVars, serverVars, libVars>>

SpecToolsets == InitToolsets /\ [][NextToolsets]_vars

\* ------------------------------------------------------------------------
\* Claims about the toolset functions
\* ------------------------------------------------------------------------
\* what a written token reads as: its word (the styles only add case and padding)
WrittenWords   == [i \in 1..Len(rawTokens) |-> rawTokens[i].word]
RecognizedWords == SelectSeq(WrittenWords, LAMBDA w : InSeq(w, validToolsets))

\* C1: filterToolsByToolsets exposes a tool iff 'all' is in the active list or
\* one of the tool's declared toolsets is in the active list.
C1_FilterExposesIff ==
  tsPc = "filtered" =>
    \A i \in 1..Len(tsTools) :
      InSeq(tsTools[i], filterOut) <=>
        (InSeq("all", tsActive)
          \/ \E k \in 1..Len(tsTools[i].toolsets) : InSeq(tsTools[i].toolsets[k], tsActive))

\* C2: an absent, empty, whitespace-only, commas-only configuration, or one with
\* no recognized toolset name (and no 'all', which C3 is about), parses to
\* exactly ['default'].
C2_DefaultWhenNothingValid ==
  (tsPc = "parsed" /\ ~InSeq("all", WrittenWords)
     /\ (~envValue.defined \/ Len(RecognizedWords) = 0))
    => parseOut = <<"default">>

C2_Witness ==
  /\ tsPc = "parsed"
  /\ envValue.defined
  /\ Len(rawTokens) >= 2
  /\ \E i \in 1..Len(rawTokens) : rawTokens[i].word = "nope"
  /\ \E i \in 1..Len(rawTokens) : rawTokens[i].word = "" /\ rawTokens[i].style = "padded"
  /\ Len(RecognizedWords) = 0
  /\ parseOut = <<"default">>
  /\ parseWarn = "defaulting"

\* C3: when the token 'all' appears anywhere in the configuration, parseToolsets
\* returns exactly ['all'].
C3_AllCollapses ==
  (tsPc = "parsed" /\ InSeq("all", WrittenWords)) => parseOut = <<"all">>

Urls         == {<<"https://directus.example.com">>, <<"https://directus.example.com", "/">>}
OptionalStrs(v) == {Undefined, "", v}
Configs == [url : Urls, token : OptionalStrs("test-token"),
            email : OptionalStrs("test@example.com"), password : OptionalStrs("test-password")]

InitClient ==
  /\ ToolsetsOff /\ ServerOff /\ LibOff
  /\ config \in Configs
  /\ cpc = "new" /\ client = NoClient /\ logins = 0
  /\ loginRejection = NoRejection /\ thrown = <<>>

\* new DirectusClient(config)
Construct ==
  /\ cpc = "new"
  /\ LET r == NewDirectusClient(config)
     IN  /\ cpc' = IF r.threw THEN "threw" ELSE "constructed"
         /\ thrown' = r.error
         /\ client' = r.client
  /\ UNCHANGED <<config, logins, loginRejection>>

\* client.authenticate()
Authenticate ==
  /\ cpc = "constructed"
  /\ LET a == AuthenticateStart(config, client)
     IN  /\ cpc' = a.cpc
         /\ logins' = IF a.loginSent THEN logins + 1 ELSE logins
         /\ loginRejection' = a.rejection
         /\ thrown' = a.thrown
  /\ UNCHANGED <<config, client>>

NextClient ==
  \/ (Construct /\ UNCHANGED <<tsVars, serverVars, libVars>>)
  \/ (Authenticate /\ UNCHANGED <<tsVars, serverVars, libVars>>)
  \/ (LoginResolve /\ UNCHANGED <<tsVars, serverVars, libVars>>)
  \/ (LoginReject /\ UNCHANGED <<tsVars, serverVars, libVars>>)

SpecClient == InitClient /\ [][NextClient]_vars

\* ------------------------------------------------------------------------
\* Claims about construction and authentication
\* ------------------------------------------------------------------------
HasCredentials(cfg) == Truthy(cfg.token) \/ (Truthy(cfg.email) /\ Truthy(cfg.password))

\* C7: constructing with neither a token nor a complete email+password pair
\* throws the configuration error from the constructor, and no network call
\* has been made when it throws.
C7_NoCredentialsThrows ==
  (cpc # "new" /\ ~HasCredentials(config))
    => /\ cpc = "threw"
       /\ thrown = ConfigErrorMessage
       /\ logins = 0
       /\ client = NoClient

C7_Witness ==
  /\ cpc = "threw"
  /\ config.token = Undefined
  /\ config.email = "test@example.com"
  /\ config.password = ""
  /\ logins = 0

\* C8: whenever a static token is configured, authenticate() performs no login
\* exchange and resolves: the client is Ready with no network call.
C8_TokenReadyWithoutLogin ==
  (Truthy(config.token) /\ cpc \notin {"new", "constructed"})
    => (cpc = "ready" /\ logins = 0)

\* ------------------------------------------------------------------------
\* index.ts: the server process
\* ------------------------------------------------------------------------
\* values of MCP_TOOLSETS the process is started with
ServerToolsetValues ==
  { EnvUndefined,
    EnvOf(<<[word |-> "flow", style |-> "padded"]>>),
    EnvOf(<<[word |-> "schema", style |-> "upper"], [word |-> "nope", style |-> "plain"]>>) }

\* DIRECTUS_URL, DIRECTUS_TOKEN, DIRECTUS_EMAIL, DIRECTUS_PASSWORD
ServerConfigs ==
  [url : {<<>>, <<"https://directus.example.com", "/">>},
   token : {Undefined, "test-token"},
   email : {Undefined, "test@example.com"},
   password : {Undefined, "test-password"}]

\* tool names and arguments the host calls with
CallNames == {"list_collections", "create_item", "delete_item", "delete_flow", "no_such_tool"}

ArgsFor(name) ==
  CASE name = "list_collections" ->
         { ArgsObject({}), ArgsObject({<<"verbose", Str(<<"1">>)>>}), ArgsMissing }
    [] name = "create_item" ->
         { ArgsObject({<<"collection", Str(<<" ", "articles", " ">>)>>, <<"data", Obj("item")>>}),
           ArgsObject({<<"collection", Str(<<" ">>)>>, <<"data", Num("7")>>}),
           ArgsObject({<<"collection", Str(<<"articles">>)>>}) }
    [] name = "delete_item" ->
         { ArgsObject({<<"collection", Str(<<"articles">>)>>, <<"id", Num("1")>>}),
           ArgsObject({<<"collection", Str(<<"articles", " ">>)>>, <<"id", Str(<<"x">>)>>,
                       <<"force", Str(<<"yes">>)>>}),
           ArgsObject({<<"collection", Num("5")>>, <<"id", Obj("id")>>}) }
    [] name = "delete_flow" ->
         { ArgsObject({<<"id", Str(<<"flow-1">>)>>}), ArgsObject({<<"id", Str(<<>>)>>}) }
    [] name = "no_such_tool" -> { ArgsObject({}) }

Init ==
  /\ tsPc = "off" /\ rawTokens = <<>>
  /\ envValue \in ServerToolsetValues
  /\ parseOut = <<>> /\ parseWarn = "none"
  /\ tsTools = <<>> /\ tsActive = <<>> /\ filterOut = <<>>
  /\ config \in ServerConfigs
  /\ cpc = "new" /\ client = NoClient /\ logins = 0
  /\ loginRejection = NoRejection /\ thrown = <<>>
  /\ pc = "load" /\ enabledToolsets = <<>> /\ enabledTools = <<>>
  /\ directusClient = FALSE /\ connected = FALSE
  /\ slots = [i \in 1..MaxInFlight |-> NoSlot]
  /\ lastResponse = NoResponse
  /\ listed = NoList
  /\ LibOff

\* the checks of the environment at module load (process.exit(1) when they fail)
EnvironmentOk(cfg) ==
  /\ cfg.url # <<>>
  /\ ~(~Truthy(cfg.token) /\ (~Truthy(cfg.email) \/ ~Truthy(cfg.password)))

\* module load: environment checks, then enabledToolsets and enabledTools
ModuleLoad ==
  /\ pc = "load"
  /\ IF EnvironmentOk(config)
       THEN /\ pc' = "main"
            /\ enabledToolsets' = parseToolsets(envValue)
            /\ enabledTools' = filterToolsByToolsets(allTools, parseToolsets(envValue))
       ELSE /\ pc' = "exited"
            /\ UNCHANGED <<enabledToolsets, enabledTools>>
  /\ UNCHANGED <<libVars, listed, tsVars, clientVars, directusClient, connected, slots, lastResponse>>

\* main() -> initializeClient() -> createDirectusClient(): the constructor and
\* authenticate() up to its first await
MainCreateClient ==
  /\ pc = "main"
  /\ pc' = "awaitClient"
  /\ LET r == NewDirectusClient(config)
         a == AuthenticateStart(config, r.client)
     IN  IF r.threw
           THEN /\ cpc' = "threw" /\ thrown' = r.error /\ client' = r.client
                /\ UNCHANGED <<logins, loginRejection>>
           ELSE /\ client' = r.client
                /\ cpc' = a.cpc
                /\ logins' = IF a.loginSent THEN logins + 1 ELSE logins
                /\ loginRejection' = a.rejection
                /\ thrown' = a.thrown
  /\ UNCHANGED <<libVars, listed, tsVars, config, enabledToolsets, enabledTools, directusClient, connected,
                 slots, lastResponse>>

\* createDirectusClient returns the client: directusClient is assigned
ClientReturned ==
  /\ pc = "awaitClient" /\ cpc = "ready"
  /\ directusClient' = TRUE
  /\ pc' = "connect"
  /\ UNCHANGED <<libVars, listed, tsVars, clientVars, enabledToolsets, enabledTools, connected, slots, lastResponse>>

\* await server.connect(transport)
MainConnect ==
  /\ pc = "connect"
  /\ connected' = TRUE
  /\ pc' = "serving"
  /\ UNCHANGED <<libVars, listed, tsVars, clientVars, enabledToolsets, enabledTools, directusClient, slots,
                 lastResponse>>

\* main() catches the failure of initializeClient(): process.exit(1)
MainFail ==
  /\ pc = "awaitClient" /\ cpc \in {"threw", "authFailed"}
  /\ pc' = "exited"
  /\ UNCHANGED <<libVars, listed, tsVars, clientVars, enabledToolsets, enabledTools, directusClient, connected,
                 slots, lastResponse>>

FirstIdle == CHOOSE i \in 1..MaxInFlight : ~slots[i].busy /\ \A j \in 1..(i - 1) : slots[j].busy

\* a tools/call request arrives: the handler runs up to its first await
CallTool(name, args) ==
  /\ pc = "serving" /\ connected
  /\ \E i \in 1..MaxInFlight : ~slots[i].busy
  /\ LET st == CallStart(name, args)
     IN  IF st.running
           THEN /\ slots' = [slots EXCEPT ![FirstIdle] =
                               [busy |-> TRUE, name |-> name, args |-> args,
                                handlerArgs |-> st.handlerArgs, events |-> st.events,
                                req |-> st.req]]
                /\ UNCHANGED lastResponse
           ELSE /\ lastResponse' = [seen |-> TRUE, name |-> name, args |-> args,
                                    handlerArgs |-> st.handlerArgs, events |-> st.events,
                                    ok |-> FALSE, text |-> st.error, cause |-> <<>>,
                                    req |-> NoRequest]
                /\ UNCHANGED slots
  /\ UNCHANGED <<libVars, listed, tsVars, clientVars, pc, enabledToolsets, enabledTools, directusClient, connected>>

\* a client that keeps the pending call in one shared field: the settled fetch
\* is finished with the data of the oldest call in flight
FetchSettles_SharedPending(i, resp) ==
  /\ slots[i].busy
  /\ LET first == CHOOSE k \in 1..MaxInFlight : slots[k].busy /\ \A j \in 1..(k - 1) : ~slots[j].busy
         fin == CallFinish(slots[first], resp)
     IN  lastResponse' = [seen |-> TRUE, name |-> slots[i].name, args |-> slots[i].args,
                          handlerArgs |-> slots[i].handlerArgs, events |-> slots[i].events,
                          ok |-> fin.ok, text |-> fin.text, cause |-> fin.cause,
                          req |-> slots[first].req]
  /\ slots' = [slots EXCEPT ![i] = NoSlot]
  /\ UNCHANGED <<libVars, listed, tsVars, clientVars, pc, enabledToolsets, enabledTools, directusClient, connected>>

\* the fetch of a call in flight settles: request(), the wrapper and the
\* dispatcher's catch run to the end of the call
FetchSettles(i, resp) ==
  /\ slots[i].busy
  /\ LET fin == CallFinish(slots[i], resp)
     IN  lastResponse' = [seen |-> TRUE, name |-> slots[i].name, args |-> slots[i].args,
                          handlerArgs |-> slots[i].handlerArgs, events |-> slots[i].events,
                          ok |-> fin.ok, text |-> fin.text, cause |-> fin.cause,
                          req |-> slots[i].req]
  /\ slots' = [slots EXCEPT ![i] = NoSlot]
  /\ UNCHANGED <<libVars, listed, tsVars, clientVars, pc, enabledToolsets, enabledTools, directusClient, connected>>

\* a list handler that answers with the whole registry
ListTools_AllTools ==
  /\ pc = "serving" /\ connected
  /\ listed' = [sent |-> TRUE, names |-> [i \in 1..Len(allTools) |-> allTools[i].name]]
  /\ UNCHANGED <<libVars, tsVars, clientVars, pc, enabledToolsets, enabledTools, directusClient,
                 connected, slots, lastResponse>>

\* a tools/list request: the handler answers with enabledTools.map(...)
ListTools ==
  /\ pc = "serving" /\ connected
  /\ listed' = [sent |-> TRUE, names |-> [i \in 1..Len(enabledTools) |-> enabledTools[i].name]]
  /\ UNCHANGED <<libVars, tsVars, clientVars, pc, enabledToolsets, enabledTools, directusClient,
                 connected, slots, lastResponse>>

Next ==
  \/ ModuleLoad
  \/ ListTools
  \/ MainCreateClient
  \/ (LoginResolve /\ UNCHANGED <<tsVars, serverVars, libVars>>)
  \/ (LoginReject /\ UNCHANGED <<tsVars, serverVars, libVars>>)
  \/ ClientReturned
  \/ MainConnect
  \/ MainFail
  \/ \E name \in CallNames : \E args \in ArgsFor(name) : CallTool(name, args)
  \/ \E i \in 1..MaxInFlight : \E resp \in Responses : FetchSettles(i, resp)

Spec == Init /\ [][Next]_vars

\* ------------------------------------------------------------------------
\* Claims about the server
\* ------------------------------------------------------------------------
EnabledNames == {enabledTools[i].name : i \in 1..Len(enabledTools)}
AllNames     == {allTools[i].name : i \in 1..Len(allTools)}
ToolsetsOfName(name) ==
  LET t == allTools[CHOOSE i \in 1..Len(allTools) : allTools[i].name = name]
  IN  {t.toolsets[k] : k \in 1..Len(t.toolsets)}
Parts(msg) == {msg[i] : i \in 1..Len(msg)}

\* C5: a call by a name that is not exposed fails before validation and before
\* any handler; for a name of the registry the error names the tool's toolsets
\* and the enabled toolsets, for an unknown name it is 'Tool not found'.
C5_UnexposedCallFails ==
  /\ \A i \in 1..MaxInFlight : slots[i].busy => slots[i].name \in EnabledNames
  /\ (lastResponse.seen /\ lastResponse.name \notin EnabledNames) =>
       /\ ~lastResponse.ok
       /\ lastResponse.events = <<>>
       /\ lastResponse.req = NoRequest
       /\ IF lastResponse.name \in AllNames
            THEN /\ SubSeq(lastResponse.text, 1, 3) =
                      <<"Tool \"", lastResponse.name,
                        "\" is not available. It belongs to toolsets: ">>
                 /\ \E k \in 1..Len(lastResponse.text) :
                      /\ lastResponse.text[k] = ". Enabled toolsets: "
                      /\ ToolsetsOfName(lastResponse.name)
                           \subseteq Parts(SubSeq(lastResponse.text, 4, k - 1))
                      /\ Parts(enabledToolsets)
                           \subseteq Parts(SubSeq(lastResponse.text, k + 1, Len(lastResponse.text)))
            ELSE lastResponse.text = <<"Tool not found: ", lastResponse.name>>

C5_Witness ==
  /\ lastResponse.seen
  /\ lastResponse.name = "delete_flow"
  /\ enabledToolsets = <<"default">>
  /\ lastResponse.text = <<"Tool \"", "delete_flow",
                           "\" is not available. It belongs to toolsets: ", "flow",
                           ". Enabled toolsets: ", "default">>
  /\ \E i \in 1..MaxInFlight : slots[i].busy

\* what it means for a handler to have got validated arguments only: the keys
\* of the schema and nothing else, collection names without surrounding blanks
OnlyValidated(name, a) ==
  /\ a.isObject
  /\ {f[1] : f \in a.fields} = SchemaKeys(name)
  /\ Has(a, "collection") =>
       LET c == Get(a, "collection").v
       IN  Len(c) > 0 /\ ~IsSpace(c[1]) /\ ~IsSpace(c[Len(c)])

\* C6: for a call to an exposed tool the validator runs before the handler and
\* the handler gets the validated arguments only; a validation failure gives
\* 'Invalid arguments:' with no handler run, any other error gives
\* 'Tool execution failed:' followed by the original error text.
C6_ValidateThenHandle ==
  /\ \A i \in 1..MaxInFlight : slots[i].busy =>
       /\ SubSeq(slots[i].events, 1, 2) = <<"parse", "handler">>
       /\ OnlyValidated(slots[i].name, slots[i].handlerArgs)
  /\ (lastResponse.seen /\ lastResponse.name \in EnabledNames) =>
       /\ Len(lastResponse.events) >= 1 /\ lastResponse.events[1] = "parse"
       /\ IF ~ZodParse(lastResponse.name, lastResponse.args).ok
            THEN /\ ~InSeq("handler", lastResponse.events)
                 /\ lastResponse.req = NoRequest
                 /\ ~lastResponse.ok
                 /\ lastResponse.text[1] = "Invalid arguments: "
                 /\ Cardinality({k \in 1..Len(lastResponse.text) :
                                   lastResponse.text[k] = "Invalid arguments: "}) = 1
            ELSE /\ SubSeq(lastResponse.events, 1, 2) = <<"parse", "handler">>
                 /\ OnlyValidated(lastResponse.name, lastResponse.handlerArgs)
                 /\ ~lastResponse.ok =>
                      /\ lastResponse.cause # <<>>
                      /\ lastResponse.text = <<"Tool execution failed: ">> \o lastResponse.cause

C6_Witness ==
  /\ lastResponse.seen
  /\ lastResponse.name = "create_item"
  /\ ~lastResponse.ok
  /\ lastResponse.text[1] = "Invalid arguments: "
  /\ Len(lastResponse.text) > 4
  /\ \E i \in 1..MaxInFlight :
       /\ slots[i].busy
       /\ slots[i].name = "delete_item"
       /\ slots[i].handlerArgs # slots[i].args

C6_WitnessExecutionFailed ==
  /\ lastResponse.seen
  /\ lastResponse.text = <<"Tool execution failed: ", "Directus API error: ", "Not found">>

UsesEmailPassword(cfg) == Truthy(cfg.email) /\ Truthy(cfg.password)
LoginSucceeded == client.session \in SessionTokens /\ logins = 1
Serving == \/ connected \/ pc \in {"connect", "serving"} \/ directusClient
           \/ lastResponse.seen \/ \E i \in 1..MaxInFlight : slots[i].busy

\* C9: with email+password the server connects and serves only after the login
\* exchange succeeded; a failed login surfaces as 'Authentication failed: ' and
\* the underlying message, no client is returned and the process exits unserved.
C9_NoServiceWithoutLogin ==
  UsesEmailPassword(config) =>
    /\ Serving => LoginSucceeded
    /\ cpc = "authFailed" =>
         /\ thrown = <<"Authentication failed: ", loginRejection.text>>
         /\ ~Serving
         /\ pc \in {"awaitClient", "exited"}
         /\ pc = "awaitClient" => ENABLED MainFail

C9_Witness ==
  /\ UsesEmailPassword(config)
  /\ logins = 1
  /\ cpc = "authFailed"
  /\ pc = "exited"
  /\ thrown = <<"Authentication failed: ", "Invalid credentials">>

\* C10: after bootstrap every request carries the authentication state set at
\* bootstrap: the bearer header for a static token, the session of the login
\* exchange for email+password.
C10_RequestsCarryAuth ==
  \A i \in 1..MaxInFlight : slots[i].busy =>
    IF Truthy(config.token)
      THEN <<"Authorization", <<"Bearer ", config.token>>>> \in slots[i].req.headers
      ELSE \E h \in slots[i].req.headers : InSeq(client.session, h[2])

\* ------------------------------------------------------------------------
\* DirectusClient.request() on its own
\* ------------------------------------------------------------------------
BaseHost == "https://directus.example.com"

\* configurations of a client that reached the ready state
RequestConfigs ==
  { [url |-> u, token |-> c[1], email |-> c[2], password |-> c[3]] :
      u \in {<<BaseHost>>, <<BaseHost, "/">>},
      c \in { <<"test-token", Undefined, Undefined>>,
              <<Undefined, "test@example.com", "test-password">>,
              <<"test-token", "test@example.com", "test-password">> } }

Methods   == {"GET", "POST", "PATCH", "PUT", "DELETE"}
Endpoints == {<<"/collections">>, <<"/items/", "articles">>}
Bodies    == {Undef, Obj("item"), Arr(<<"1", "2">>), Arr(<<>>)}

\* what fetch resolves with
HttpResponses ==
  { [status |-> 200, statusText |-> "OK"],
    [status |-> 204, statusText |-> "No Content"],
    [status |-> 404, statusText |-> "Not Found"],
    [status |-> 500, statusText |-> ""] }

\* what the parse of an error body yields
ErrorLists ==
  { <<>>,
    <<[hasMessage |-> FALSE, message |-> ""]>>,
    <<[hasMessage |-> TRUE, message |-> ""]>>,
    <<[hasMessage |-> TRUE, message |-> "Item not found"]>>,
    <<[hasMessage |-> TRUE, message |-> "Forbidden"], [hasMessage |-> TRUE, message |-> "second"]>> }

ErrorBodies ==
  { [rejects |-> TRUE, data |-> EmptyObject],
    [rejects |-> FALSE, data |-> [EmptyObject EXCEPT !.isNull = TRUE]] }
  \cup { [rejects |-> FALSE,
          data |-> [isNull |-> FALSE, hasErrors |-> e[1], errors |-> e[2],
                    hasMessage |-> g[1], message |-> g[2]]] :
          e \in {<<FALSE, <<>>>>} \cup {<<TRUE, l>> : l \in ErrorLists},
          g \in {<<FALSE, "">>, <<TRUE, "">>, <<TRUE, "Something went wrong">>} }

\* what fetch and response.json() reject with
FetchErrors == {RuntimeError("Network error"), RuntimeError("fetch failed")}
ParseErrors == {RuntimeError("Unexpected end of JSON input")}

InitRequest ==
  /\ ToolsetsOff /\ ServerOff
  /\ config \in RequestConfigs
  /\ cpc = "ready" /\ logins = 0 /\ loginRejection = NoRejection /\ thrown = <<>>
  /\ client = LET c == NewDirectusClient(config).client
              IN  [c EXCEPT !.session = IF c.sdk = "authentication" THEN "session-1" ELSE ""]
  /\ \E m \in Methods, ep \in Endpoints, d \in Bodies :
       rq = [NoRq EXCEPT !.pc = "call", !.method = m, !.endpoint = ep, !.data = d]
  /\ qs = NoQs /\ rf = NoRf /\ ToolOff

RequestUnchanged == UNCHANGED <<tsVars, clientVars, serverVars, qs, rf, toolVars>>

NextRequest ==
  \/ (RequestCall /\ RequestUnchanged)
  \/ \E resp \in HttpResponses : (FetchResolves(resp) /\ RequestUnchanged)
  \/ \E err \in FetchErrors : (FetchRejects(err) /\ RequestUnchanged)
  \/ \E body \in ErrorBodies : (ErrorBodySettles(body) /\ RequestUnchanged)
  \/ (SuccessBodyResolves("payload") /\ RequestUnchanged)
  \/ \E err \in ParseErrors : (SuccessBodyRejects(err) /\ RequestUnchanged)

SpecRequest == InitRequest /\ [][NextRequest]_vars

\* ------------------------------------------------------------------------
\* Claims about request()
\* ------------------------------------------------------------------------
GotResponse == rq.resp # NoHttp
NonSuccess  == GotResponse /\ (rq.resp.status < 200 \/ rq.resp.status > 299)
PrefixCount(parts) == Cardinality({k \in 1..Len(parts) : parts[k] = "Directus API error: "})

\* C11: a request answered with a non-success status rejects with
\* 'Directus API error: ' followed by the first remote error's message, else
\* the body's generic message, else the status text; a body that cannot be
\* parsed gives the status text.
C11_NonSuccessMessage ==
  (rq.pc = "done" /\ NonSuccess) =>
    LET d      == rq.body.data
        parsed == ~rq.body.rejects /\ ~d.isNull
        first  == parsed /\ d.hasErrors /\ Len(d.errors) > 0
                    /\ d.errors[1].hasMessage /\ d.errors[1].message # ""
        gen    == parsed /\ d.hasMessage /\ d.message # ""
    IN  /\ rq.out.settled /\ ~rq.out.ok
        /\ rq.out.error = <<"Directus API error: ",
                            IF first THEN d.errors[1].message
                            ELSE IF gen THEN d.message
                            ELSE rq.resp.statusText>>

C11_Witness ==
  /\ rq.pc = "done" /\ rq.resp.status = 404
  /\ ~rq.body.rejects /\ rq.body.data.hasErrors /\ rq.body.data.hasMessage
  /\ rq.body.data.message = "Something went wrong"
  /\ rq.out.error = <<"Directus API error: ", "Forbidden">>

\* C12: a request answered with HTTP 204 resolves to {success: true} and the
\* response body is never parsed.
C12_NoContentIsSuccess ==
  (GotResponse /\ rq.resp.status = 204) =>
    /\ rq.pc = "done"
    /\ rq.out = [settled |-> TRUE, ok |-> TRUE, value |-> "{success: true}", error |-> <<>>]
    /\ rq.jsonCalls = 0

C12_Witness ==
  /\ rq.pc = "done" /\ rq.resp.status = 204 /\ rq.method = "DELETE"
  /\ rq.out.ok /\ rq.jsonCalls = 0 /\ rq.fetches = 1

\* the failures of request() that are not a non-success status
FetchThrew      == rq.pc = "done" /\ ~GotResponse
SuccessParseThrew == rq.pc = "done" /\ GotResponse /\ ~NonSuccess /\ rq.body.rejects

\* C13: when fetch throws or the parse of a success body throws, request()
\* rejects with 'Directus API error: ' followed by the underlying message; no
\* rejection of request() carries the prefix twice.
C13_TransportFailureWrappedOnce ==
  /\ (FetchThrew \/ SuccessParseThrew) =>
       /\ rq.out.settled /\ ~rq.out.ok
       /\ rq.out.error = <<"Directus API error: ", rq.caught.message>>
  /\ (rq.out.settled /\ ~rq.out.ok) =>
       /\ rq.out.error[1] = "Directus API error: "
       /\ PrefixCount(rq.out.error) = 1

C13_Witness ==
  /\ SuccessParseThrew
  /\ rq.out.error = <<"Directus API error: ", "Unexpected end of JSON input">>

\* C14: an invocation of request() calls fetch exactly once, whatever comes
\* back, and every failure ends as a rejection the caller sees.
C14_OneCallFailureSurfaces ==
  /\ rq.pc \in {"fetching", "errorBody", "successBody", "done"} => rq.fetches = 1
  /\ (rq.pc = "done" /\ (NonSuccess \/ FetchThrew \/ SuccessParseThrew)) =>
       (rq.out.settled /\ ~rq.out.ok /\ rq.out.error # <<>>)
  /\ rq.pc \in {"errorBody", "successBody"} => ~rq.out.settled

C14_Witness ==
  /\ FetchThrew /\ rq.fetches = 1 /\ ~rq.out.ok
  /\ rq.out.error = <<"Directus API error: ", "fetch failed">>

\* C15: the call carries a body exactly when the method is POST, PATCH or PUT
\* and data was given, or the method is DELETE and data is an array; the body
\* is the data.
C15_BodyAttachment ==
  rq.pc \in {"fetching", "errorBody", "successBody", "done"} =>
    LET supplied == rq.data.t # "undefined"
        expected == \/ (rq.method \in {"POST", "PATCH", "PUT"} /\ supplied)
                    \/ (rq.method = "DELETE" /\ rq.data.t = "array")
    IN  /\ rq.call.hasBody <=> expected
        /\ rq.call.hasBody => rq.call.body = rq.data
        /\ rq.call.method = rq.method

C15_Witness ==
  /\ rq.pc = "fetching" /\ rq.method = "DELETE"
  /\ rq.data = Arr(<<"1", "2">>) /\ rq.call.hasBody

\* C16: the call goes to the base URL without its trailing slash followed by
\* the path, with Content-Type: application/json, and with Authorization:
\* Bearer <token> exactly when a static token is configured.
C16_UrlAndHeaders ==
  rq.pc \in {"fetching", "errorBody", "successBody", "done"} =>
    /\ rq.call.url = <<"https://directus.example.com">> \o rq.endpoint
    /\ <<"Content-Type", <<"application/json">>>> \in rq.call.headers
    /\ (\E h \in rq.call.headers : h[1] = "Authorization") <=> (config.token = "test-token")
    /\ \A h \in rq.call.headers :
         h[1] = "Authorization" => h[2] = <<"Bearer ", "test-token">>

C16_Witness ==
  /\ rq.pc = "fetching" /\ config.url = <<"https://directus.example.com", "/">>
  /\ config.token = "test-token"
  /\ rq.call.url = <<"https://directus.example.com", "/items/", "articles">>

\* ------------------------------------------------------------------------
\* buildQueryString on its own
\* ------------------------------------------------------------------------
\* the value each key usually has (the values of the client's tests)
UsualValue(k) ==
  CASE k = "fields"    -> QArr(<< <<"id">>, <<"title">> >>)
    [] k = "filter"    -> QObj(<<Entry("status", "object", <<>>, 0,
                                       <<Leaf("_eq", "string", <<"published">>, 0)>>)>>)
    [] k = "search"    -> QStr(<<"test", " ", "query">>)
    [] k = "sort"      -> QArr(<< <<"-date_created">>, <<"title">> >>)
    [] k = "limit"     -> QNum(10)
    [] k = "offset"    -> QNum(20)
    [] k = "page"      -> QNum(2)
    [] k = "aggregate" -> QObj(<<Entry("count", "string", <<"*">>, 0, <<>>)>>)
    [] k = "groupBy"   -> QArr(<< <<"status">>, <<"category">> >>)
    [] k = "deep"      -> QObj(<<Entry("author", "object", <<>>, 0,
                                       <<Leaf("_limit", "number", <<>>, 1)>>)>>)
    [] k = "meta"      -> QStr(<<"total_count">>)
    [] k = "export"    -> QStr(<<"csv">>)

\* other values the validators let through, or a direct caller passes
OtherValues(k) ==
  CASE k = "fields"    -> {QStr(<<"id">>), QArr(<<>>), QArr(<< <<"*">> >>)}
    [] k = "filter"    -> {QObj(<<>>),
                           QObj(<<Entry("title", "object", <<>>, 0,
                                        <<Leaf("_eq", "string", <<"hello", " ", "world">>, 0)>>),
                                  Entry("views", "number", <<>>, 5, <<>>)>>)}
    [] k = "search"    -> {QStr(<<>>), QStr(<<"test">>), QStr(<<"a", "+", "b", "&", "c", "=", "d">>)}
    [] k = "sort"      -> {QStr(<<"title">>), QArr(<< <<"title">> >>)}
    [] k = "limit"     -> {QNum(0), QNum(0 - 1), QNum(250)}
    [] k = "offset"    -> {QNum(0)}
    [] k = "page"      -> {QNum(0), QNum(1)}
    [] k = "aggregate" -> {QObj(<<>>)}
    [] k = "groupBy"   -> {QStr(<<"status">>)}
    [] k = "deep"      -> {QObj(<<>>)}
    [] k = "meta"      -> {QStr(<<>>), QStr(<<"*">>)}
    [] k = "export"    -> {QStr(<<>>), QStr(<<"json">>)}

UsualBag(S) == [k \in QueryKeySet |-> IF k \in S THEN UsualValue(k) ELSE QUndef]

QueryBags ==
  LET few == {S \in SUBSET QueryKeySet : Cardinality(S) <= MaxPresent}
  IN  {UsualBag(S) : S \in few \cup {QueryKeySet}}
      \cup UNION {{[UsualBag(S) EXCEPT ![k] = v] : S \in few, v \in OtherValues(k)} :
                    k \in QueryKeySet}

InitQuery ==
  /\ ToolsetsOff /\ ClientOff /\ ServerOff
  /\ rq = NoRq /\ rf = NoRf /\ ToolOff
  /\ \E bag \in QueryBags : qs = [NoQs EXCEPT !.pc = "call", !.params = bag]

\* client.buildQueryString(params)
ApplyBuildQueryString ==
  /\ qs.pc = "call"
  /\ qs' = [qs EXCEPT !.pc = "built",
                      !.pairs = AppendedPairs(qs.params),
                      !.out = buildQueryString(qs.params)]
  /\ UNCHANGED <<tsVars, clientVars, serverVars, rq, rf, toolVars>>

NextQuery == ApplyBuildQueryString

SpecQuery == InitQuery /\ [][NextQuery]_vars

\* ------------------------------------------------------------------------
\* Claims about buildQueryString
\* ------------------------------------------------------------------------
\* reading a query string back: split on '&', then on the first '='
RECURSIVE SplitOnToken(_, _, _)
SplitOnToken(seq, sep, cur) ==
  IF seq = <<>> THEN <<cur>>
  ELSE IF Head(seq) = sep THEN <<cur>> \o SplitOnToken(Tail(seq), sep, <<>>)
  ELSE SplitOnToken(Tail(seq), sep, Append(cur, Head(seq)))

KeyPart(seg) ==
  IF \E i \in 1..Len(seg) : seg[i] = "="
    THEN SubSeq(seg, 1, (CHOOSE i \in 1..Len(seg) : seg[i] = "=" /\ \A j \in 1..(i - 1) : seg[j] # "=") - 1)
    ELSE seg
ValuePart(seg) == SubSeq(seg, Len(KeyPart(seg)) + 2, Len(seg))

ReadBack(out) ==
  IF out = <<>> THEN <<>>
  ELSE LET segs == SplitOnToken(Tail(out), "&", <<>>)
       IN  [i \in 1..Len(segs) |-> [key |-> KeyPart(segs[i]), value |-> ValuePart(segs[i])]]

\* decodeURIComponent on one token, and the form decoding that reads '+' as a blank
PercentDecodeToken(c) ==
  CASE c = "%2C" -> ","  [] c = "%7B" -> "{"  [] c = "%7D" -> "}"  [] c = "%5B" -> "["
    [] c = "%5D" -> "]"  [] c = "%22" -> "\"" [] c = "%3A" -> ":"  [] c = "%2B" -> "+"
    [] c = "%26" -> "&"  [] c = "%3D" -> "="  [] c = "%25" -> "%"  [] c = "%20" -> " "
    [] OTHER -> c
PercentDecode(s) == [i \in 1..Len(s) |-> PercentDecodeToken(s[i])]
FormDecode(s) == [i \in 1..Len(s) |-> IF s[i] = "+" THEN " " ELSE PercentDecodeToken(s[i])]

KeysReadBack == {PercentDecode(ReadBack(qs.out)[i].key) : i \in 1..Len(ReadBack(qs.out))}
DefinedKeys  == {<<k>> : k \in {k2 \in QueryKeySet : qs.params[k2].t # "undefined"}}

\* a key the encoder writes: limit, offset and page when defined, the others
\* when their value is not the empty string (nor another falsy value)
WrittenKeys ==
  {<<k>> : k \in {k2 \in QueryKeySet :
                    /\ qs.params[k2].t # "undefined"
                    /\ k2 \notin {"limit", "offset", "page"} =>
                         /\ ~(qs.params[k2].t = "string" /\ qs.params[k2].s = <<>>)
                         /\ ~(qs.params[k2].t = "number" /\ qs.params[k2].n = 0)}}

\* C17 as stated: the result is empty when no field is defined and otherwise
\* '?' followed by exactly the keys that are defined in the bag, whatever
\* their value.
C17_KeysAreDefinedFields ==
  qs.pc = "built" =>
    IF DefinedKeys = {} THEN qs.out = <<>>
    ELSE /\ qs.out # <<>> /\ qs.out[1] = "?"
         /\ KeysReadBack = DefinedKeys
         /\ Len(ReadBack(qs.out)) = Cardinality(DefinedKeys)

\* C17 amended: the keys written are limit, offset and page when defined and
\* the other nine when their value is truthy; the result is empty when there
\* is no such key and '?'-prefixed otherwise.
C17_KeysAreWrittenFields ==
  qs.pc = "built" =>
    IF WrittenKeys = {} THEN qs.out = <<>>
    ELSE /\ qs.out # <<>> /\ qs.out[1] = "?"
         /\ KeysReadBack = WrittenKeys
         /\ Len(ReadBack(qs.out)) = Cardinality(WrittenKeys)

C17_Witness ==
  /\ qs.pc = "built"
  /\ qs.params["limit"] = QNum(0) /\ qs.params["fields"].t = "array"
  /\ qs.params["search"].t = "undefined"
  /\ KeysReadBack = {<<"limit">>, <<"fields">>}

\* the entry read back for a key, decoded by the given rule
ReadValue(k) ==
  LET rb == ReadBack(qs.out)
  IN  rb[CHOOSE i \in 1..Len(rb) : rb[i].key = <<k>>].value
HasKey(k) == \E i \in 1..Len(ReadBack(qs.out)) : ReadBack(qs.out)[i].key = <<k>>

ArrayKeys == {k \in {"fields", "sort", "groupBy"} : qs.params[k].t = "array"}
JsonKeys  == {k \in {"filter", "aggregate", "deep"} : qs.params[k].t = "object"}

\* C18 as stated: splitting the result on '&' and '=' and percent-decoding
\* gives back exactly the keys of the bag, the comma-joined elements of each
\* array and the JSON text of each filter, aggregate and deep entry.
C18_PercentDecodeRoundTrip ==
  qs.pc = "built" =>
    /\ KeysReadBack = DefinedKeys
    /\ \A k \in ArrayKeys :
         HasKey(k) /\ PercentDecode(ReadValue(k)) = JoinTokens(qs.params[k].items, <<",">>)
    /\ \A k \in JsonKeys :
         HasKey(k) /\ PercentDecode(ReadValue(k)) = StringifyObject(qs.params[k].obj)

\* C18 amended: splitting the result on '&' and '=' and form-decoding ('+' is
\* a blank, then percent-decoding) gives back exactly the keys the encoder
\* writes, the comma-joined elements of each array and the JSON text of each
\* filter, aggregate and deep entry; search, meta and export come back
\* unchanged.
C18_FormDecodeRoundTrip ==
  qs.pc = "built" =>
    /\ KeysReadBack = WrittenKeys
    /\ \A k \in ArrayKeys :
         HasKey(k) /\ FormDecode(ReadValue(k)) = JoinTokens(qs.params[k].items, <<",">>)
    /\ \A k \in JsonKeys :
         HasKey(k) /\ FormDecode(ReadValue(k)) = StringifyObject(qs.params[k].obj)
    /\ \A k \in {"search", "meta", "export"} :
         HasKey(k) => FormDecode(ReadValue(k)) = qs.params[k].s

C18_Witness ==
  /\ qs.pc = "built"
  /\ HasKey("filter") /\ HasKey("fields")
  /\ \E i \in 1..Len(qs.out) : qs.out[i] = "+"
  /\ FormDecode(ReadValue("filter")) =
       <<"{", "\"", "title", "\"", ":", "{", "\"", "_eq", "\"", ":", "\"", "hello", " ", "world",
         "\"", "}", ",", "\"", "views", "\"", ":", "5", "}">>
  /\ FormDecode(ReadValue("fields")) = <<"id", ",", "title">>

\* the decimal text of the numbers drawn
Decimal(n) ==
  CASE n = 0 -> <<"0">> [] n = 1 -> <<"1">> [] n = 2 -> <<"2">> [] n = 10 -> <<"1", "0">>
    [] n = 20 -> <<"2", "0">> [] n = 250 -> <<"2", "5", "0">> [] n = 0 - 1 -> <<"-", "1">>

PairOf(k) == qs.pairs[CHOOSE i \in 1..Len(qs.pairs) : qs.pairs[i].key = k]
HasPair(k) == \E i \in 1..Len(qs.pairs) : qs.pairs[i].key = k

\* C19: what is appended for fields, sort and groupBy is the elements of an
\* array with one comma between neighbours, or the scalar itself; what is
\* appended for limit, offset and page is the decimal text of the number,
\* whatever the number.
C19_ListsAndNumbers ==
  qs.pc = "built" =>
    /\ \A k \in {"fields", "sort", "groupBy"} :
         LET v == qs.params[k]
         IN  /\ (v.t = "array" /\ v.items # <<>>) =>
                  HasPair(k) /\ SplitOnToken(PairOf(k).value, ",", <<>>) = v.items
             /\ (v.t = "array" /\ v.items = <<>>) => HasPair(k) /\ PairOf(k).value = <<>>
             /\ (v.t = "string" /\ v.s # <<>>) => HasPair(k) /\ PairOf(k).value = v.s
    /\ \A k \in {"limit", "offset", "page"} :
         qs.params[k].t = "number" =>
           HasPair(k) /\ PairOf(k).value = Decimal(qs.params[k].n)

C19_Witness ==
  /\ qs.pc = "built"
  /\ qs.params["limit"] = QNum(0 - 1)
  /\ qs.params["sort"].t = "array"
  /\ PairOf("sort").value = <<"-date_created", ",", "title">>
  /\ PairOf("limit").value = <<"-", "1">>

\* ------------------------------------------------------------------------
\* createResourceMethods on its own
\* ------------------------------------------------------------------------
Options(bulk, special) == [given |-> TRUE, supportsBulk |-> bulk, special |-> special]

\* the five resources of DirectusClient, and the factory's own methods under
\* each spelling of the options
ResourceSpecs ==
  { [basePath |-> <<"collections">>, options |-> NoOptions],
    [basePath |-> <<"relations">>,   options |-> NoOptions],
    [basePath |-> <<>>,              options |-> Options("true", "items")],
    [basePath |-> <<"flows">>,       options |-> Options("true", "flows")],
    [basePath |-> <<"operations">>,  options |-> Options("true", "operations")] }
  \cup { [basePath |-> b, options |-> Options(bulk, "none")] :
           b \in {<<"collections">>, <<"/", "collections">>},
           bulk \in {"omitted", "false", "true"} }

ResourceCallNames ==
  StandardMethods \cup BulkMethods \cup {"query", "createFlows", "triggerFlow", "deleteOperations"}

ResourceIds   == {"7", "abc"}
ResourceData  == {Obj("item"), Arr(<<"1", "2">>)}

InitResource ==
  /\ ToolsetsOff /\ ClientOff /\ ServerOff
  /\ rq = NoRq /\ qs = NoQs /\ ToolOff
  /\ \E spec \in ResourceSpecs :
       rf = [NoRf EXCEPT !.pc = "new", !.basePath = spec.basePath, !.options = spec.options]

\* createResourceMethods(basePath, options)
BuildResource ==
  /\ rf.pc = "new"
  /\ LET r == createResourceMethods(rf.basePath, rf.options)
     IN  rf' = [rf EXCEPT !.pc = "built", !.normalizedBasePath = r.normalizedBasePath,
                          !.methods = r.methods]
  /\ UNCHANGED <<tsVars, clientVars, serverVars, rq, qs, toolVars>>

\* (this.<resource> as any).<name>(this, ...)
CallResource(name, id, hasParams, data) ==
  /\ rf.pc = "built"
  /\ rf' = [rf EXCEPT !.pc = "called",
                      !.call = ResourceCall(rf, name, id, hasParams,
                                            IF hasParams THEN UsualBag({"fields", "limit"})
                                            ELSE EmptyBag, data)]
  /\ UNCHANGED <<tsVars, clientVars, serverVars, rq, qs, toolVars>>

NextResource ==
  \/ BuildResource
  \/ \E name \in ResourceCallNames, id \in ResourceIds, hasParams \in BOOLEAN,
        data \in ResourceData : CallResource(name, id, hasParams, data)

SpecResource == InitResource /\ [][NextResource]_vars

\* ------------------------------------------------------------------------
\* Claims about createResourceMethods
\* ------------------------------------------------------------------------
MethodNames == {m.name : m \in rf.methods}

\* C20: a resource built with supportsBulk true has bulkCreate, bulkUpdate and
\* bulkDelete and calling them works; built with supportsBulk false or without
\* it, it has none of the three and calling one is a TypeError.
C20_BulkOnlyWhenSupported ==
  rf.pc \in {"built", "called"} =>
    LET asked == rf.options.given /\ rf.options.supportsBulk = "true"
    IN  /\ asked => {"bulkCreate", "bulkUpdate", "bulkDelete"} \subseteq MethodNames
        /\ ~asked => MethodNames \cap {"bulkCreate", "bulkUpdate", "bulkDelete"} = {}
        /\ (rf.pc = "called" /\ rf.call.name \in {"bulkCreate", "bulkUpdate", "bulkDelete"}) =>
             IF asked THEN rf.call.outcome \in {"request", "special"}
             ELSE rf.call.outcome = "TypeError"

C20_Witness ==
  /\ rf.pc = "called" /\ rf.options = [given |-> TRUE, supportsBulk |-> "true", special |-> "none"]
  /\ rf.call.name = "bulkDelete" /\ rf.call.outcome = "request"
  /\ rf.call.req = [method |-> "DELETE", endpoint |-> <<"/", "collections">>,
                    data |-> Arr(<<"1", "2">>)]

\* the base path with its leading slash, and the query text of the bag the
\* calls are made with
SlashedBase == <<"/">> \o SelectSeq(rf.basePath, LAMBDA c : c # "/")
CallQuery ==
  IF rf.call.hasParams
    THEN <<"?", "fields", "=", "id", "%2C", "title", "&", "limit", "=", "1", "0">>
    ELSE <<>>

\* C21: each method the factory writes issues one request: list GET base+query,
\* get GET base/id+query, create POST base with the body, update PATCH base/id
\* with the body, delete DELETE base/id without body; the bulk methods POST,
\* PATCH and DELETE the array to the base path itself.
C21_FactoryRequests ==
  (rf.pc = "called" /\ [name |-> rf.call.name, impl |-> "factory"] \in rf.methods) =>
    /\ rf.call.outcome = "request"
    /\ rf.call.req =
         CASE rf.call.name = "list" ->
                [method |-> "GET", endpoint |-> SlashedBase \o CallQuery, data |-> Undef]
           [] rf.call.name = "get" ->
                [method |-> "GET", endpoint |-> SlashedBase \o <<"/", rf.call.id>> \o CallQuery,
                 data |-> Undef]
           [] rf.call.name = "create" ->
                [method |-> "POST", endpoint |-> SlashedBase, data |-> rf.call.data]
           [] rf.call.name = "update" ->
                [method |-> "PATCH", endpoint |-> SlashedBase \o <<"/", rf.call.id>>,
                 data |-> rf.call.data]
           [] rf.call.name = "delete" ->
                [method |-> "DELETE", endpoint |-> SlashedBase \o <<"/", rf.call.id>>,
                 data |-> Undef]
           [] rf.call.name = "bulkCreate" ->
                [method |-> "POST", endpoint |-> SlashedBase, data |-> rf.call.data]
           [] rf.call.name = "bulkUpdate" ->
                [method |-> "PATCH", endpoint |-> SlashedBase, data |-> rf.call.data]
           [] rf.call.name = "bulkDelete" ->
                [method |-> "DELETE", endpoint |-> SlashedBase, data |-> rf.call.data]

C21_Witness ==
  /\ rf.pc = "called" /\ rf.basePath = <<"collections">> /\ rf.call.name = "get"
  /\ rf.call.hasParams /\ rf.call.id = "abc"
  /\ rf.call.req.endpoint = <<"/", "collections", "/", "abc", "?", "fields", "=", "id", "%2C",
                              "title", "&", "limit", "=", "1", "0">>

\* ------------------------------------------------------------------------
\* createTool and createActionTool on their own
\* ------------------------------------------------------------------------
\* definitions handed to the wrappers
ToolDefinitions ==
  { [kind |-> "createTool",
     def |-> [name |-> "list_collections", description |-> "List all collections",
              inputSchema |-> "ListCollectionsSchema",
              toolsets |-> <<"default", "schema", "collections">>,
              handler |-> "config.handler", successMessage |-> ""]],
    [kind |-> "createTool",
     def |-> [name |-> "create_item", description |-> "Create a new item",
              inputSchema |-> "CreateItemSchema", toolsets |-> <<"default", "content">>,
              handler |-> "config.handler", successMessage |-> ""]],
    [kind |-> "createActionTool",
     def |-> [name |-> "delete_item", description |-> "Delete an item",
              inputSchema |-> "DeleteItemSchema", toolsets |-> <<"default", "content">>,
              handler |-> "config.handler", successMessage |-> "config.successMessage"]],
    [kind |-> "createActionTool",
     def |-> [name |-> "delete_flow", description |-> "Delete a flow",
              inputSchema |-> "DeleteFlowSchema", toolsets |-> <<"flow">>,
              handler |-> "config.handler", successMessage |-> "config.successMessage"]] }

\* what the inner handler resolves to and rejects with
HandlerValues ==
  { QUndef, QObj(<<>>), QArr(<<>>), QStr(<<"ok">>), QNum(42),
    QArr(<< <<"a">>, <<"b">> >>),
    QObj(<<Entry("success", "string", <<"yes">>, 0, <<>>)>>),
    QObj(<<Entry("data", "object", <<>>, 0,
                 <<Leaf("id", "number", <<>>, 1), Leaf("title", "string", <<"A">>, 0)>>),
           Entry("count", "number", <<>>, 2, <<>>)>>) }

HandlerErrors == { <<"Directus API error: ", "Not found">>, <<"Flow not found">> }

InitWrap ==
  /\ ToolsetsOff /\ ClientOff /\ ServerOff
  /\ rq = NoRq /\ qs = NoQs /\ rf = NoRf /\ tl = NoTl /\ both = NoBoth
  /\ \E d \in ToolDefinitions : \E a \in ArgsFor(d.def.name) :
       th = [NoTh EXCEPT !.pc = "new", !.kind = d.kind, !.def = d.def, !.args = a]

WrapUnchanged == UNCHANGED <<tsVars, clientVars, serverVars, rq, qs, rf, tl, both>>

\* createTool(config) / createActionTool(config)
MakeTool ==
  /\ th.pc = "new"
  /\ th' = [th EXCEPT !.pc = "made",
                      !.tool = IF th.kind = "createTool" THEN createTool(th.def)
                               ELSE createActionTool(th.def)]
  /\ WrapUnchanged

\* tool.handler(client, args) up to `await config.handler(client, args)`
InvokeHandler ==
  /\ th.pc = "made"
  /\ th' = [th EXCEPT !.pc = "awaiting", !.events = <<"handler called">>]
  /\ WrapUnchanged

InnerResolves(value) ==
  /\ th.pc = "awaiting"
  /\ th' = WrapperResolved(th, value)
  /\ WrapUnchanged

InnerRejects(err) ==
  /\ th.pc = "awaiting"
  /\ th' = WrapperRejected(th, err)
  /\ WrapUnchanged

NextWrap ==
  \/ MakeTool
  \/ InvokeHandler
  \/ \E value \in HandlerValues : InnerResolves(value)
  \/ \E err \in HandlerErrors : InnerRejects(err)

SpecWrap == InitWrap /\ [][NextWrap]_vars

\* ------------------------------------------------------------------------
\* Claims about the wrappers
\* ------------------------------------------------------------------------
\* JSON.stringify(V, null, 2) of the values drawn, written out
PrettyText(v) ==
  CASE v = QUndef      -> [isString |-> FALSE, tokens |-> <<>>]
    [] v = QObj(<<>>)  -> [isString |-> TRUE, tokens |-> <<"{", "}">>]
    [] v = QArr(<<>>)  -> [isString |-> TRUE, tokens |-> <<"[", "]">>]
    [] v = QStr(<<"ok">>) -> [isString |-> TRUE, tokens |-> <<"\"", "ok", "\"">>]
    [] v = QNum(42)    -> [isString |-> TRUE, tokens |-> <<"4", "2">>]
    [] v.t = "array" /\ v.items # <<>> ->
         [isString |-> TRUE,
          tokens |-> <<"[", "\n", "  ", "\"", "a", "\"", ",", "\n", "  ", "\"", "b", "\"", "\n", "]">>]
    [] v.t = "object" /\ Len(v.obj) = 1 ->
         [isString |-> TRUE,
          tokens |-> <<"{", "\n", "  ", "\"", "success", "\"", ":", " ", "\"", "yes", "\"", "\n", "}">>]
    [] v.t = "object" /\ Len(v.obj) = 2 ->
         [isString |-> TRUE,
          tokens |-> <<"{", "\n",
                       "  ", "\"", "data", "\"", ":", " ", "{", "\n",
                       "  ", "  ", "\"", "id", "\"", ":", " ", "1", ",", "\n",
                       "  ", "  ", "\"", "title", "\"", ":", " ", "\"", "A", "\"", "\n",
                       "  ", "}", ",", "\n",
                       "  ", "\"", "count", "\"", ":", " ", "2", "\n",
                       "}">>]

\* C22: when the inner handler of a createTool tool resolves to V, the tool's
\* handler resolves to one content entry of type 'text' whose text is
\* JSON.stringify(V, null, 2).
C22_DataToolText ==
  (th.pc = "done" /\ th.kind = "createTool" /\ th.inner = "resolved") =>
    /\ th.result.settled /\ th.result.ok
    /\ Len(th.result.content) = 1
    /\ th.result.content[1].type = "text"
    /\ th.result.content[1].text = PrettyText(th.value)

C22_Witness ==
  /\ th.pc = "done" /\ th.kind = "createTool" /\ th.inner = "resolved"
  /\ th.value.t = "object" /\ Len(th.value.obj) = 2
  /\ Len(th.result.content[1].text.tokens) > 40

\* the success messages of the two action tools, on the arguments of the call
ExpectedSuccessText ==
  IF th.def.name = "delete_item"
    THEN <<"Item ">> \o Get(th.args, "id").v \o <<" deleted from collection \"">>
           \o Get(th.args, "collection").v \o <<"\"">>
    ELSE <<"Flow ">> \o Get(th.args, "id").v \o <<" deleted successfully">>

Position(ev) == CHOOSE i \in 1..Len(th.events) : th.events[i] = ev

\* C23: for a createActionTool tool successMessage runs only after the inner
\* handler resolved; when the inner handler rejects it never runs and the
\* caller gets that rejection; on success the one text entry is
\* successMessage(args) on the arguments of the call.
C23_ActionToolOrder ==
  th.kind = "createActionTool" =>
    /\ InSeq("successMessage", th.events) =>
         /\ InSeq("handler resolved", th.events)
         /\ Position("handler resolved") < Position("successMessage")
         /\ th.inner = "resolved"
    /\ (th.pc = "done" /\ th.inner = "rejected") =>
         /\ ~InSeq("successMessage", th.events)
         /\ th.result.settled /\ ~th.result.ok
         /\ th.result.error = th.innerError
         /\ th.result.content = <<>>
    /\ (th.pc = "done" /\ th.inner = "resolved") =>
         /\ th.result.ok
         /\ Len(th.result.content) = 1
         /\ th.result.content[1] = [type |-> "text",
                                    text |-> [isString |-> TRUE, tokens |-> ExpectedSuccessText]]

C23_Witness ==
  /\ th.pc = "done" /\ th.kind = "createActionTool" /\ th.inner = "rejected"
  /\ th.result.error = <<"Directus API error: ", "Not found">>
  /\ th.events = <<"handler called", "handler rejected">>

\* C24: the tool a wrapper produces has the name, description, inputSchema and
\* toolsets of the definition; its handler is the wrapper's, not the definition's.
C24_WrapperPassThrough ==
  th.pc \in {"made", "awaiting", "done"} =>
    /\ th.tool.name = th.def.name
    /\ th.tool.description = th.def.description
    /\ th.tool.inputSchema = th.def.inputSchema
    /\ th.tool.toolsets = th.def.toolsets
    /\ th.tool.handler = th.kind
    /\ th.tool.handler # th.def.handler

C24_Witness ==
  /\ th.pc = "made" /\ th.kind = "createActionTool"
  /\ th.tool.name = "delete_flow" /\ th.tool.toolsets = <<"flow">>
  /\ th.tool.inputSchema = "DeleteFlowSchema"

\* ------------------------------------------------------------------------
\* Further claims about the server
\* ------------------------------------------------------------------------
ToolsetSet(tool) == {tool.toolsets[k] : k \in 1..Len(tool.toolsets)}
Vocabulary == {validToolsets[k] : k \in 1..Len(validToolsets)}

\* C25: in the combined registry the tool names are pairwise distinct, and
\* every tool declares at least one toolset, each of them a valid toolset
\* name; the tools the server enables are tools of that registry.
C25_RegistryWellFormed ==
  /\ \A i, j \in 1..Len(allTools) : allTools[i].name = allTools[j].name => i = j
  /\ \A i \in 1..Len(allTools) :
       /\ Len(allTools[i].toolsets) >= 1
       /\ ToolsetSet(allTools[i]) \subseteq Vocabulary
  /\ \A i, j \in 1..Len(enabledTools) : enabledTools[i].name = enabledTools[j].name => i = j
  /\ \A i \in 1..Len(enabledTools) :
       /\ \E k \in 1..Len(allTools) : allTools[k] = enabledTools[i]
       /\ ToolsetSet(enabledTools[i]) # {}
       /\ ToolsetSet(enabledTools[i]) \subseteq Vocabulary

\* the server serves with tools of the combined registry enabled
C25_Witness ==
  /\ pc = "serving" /\ connected
  /\ Len(allTools) = 40
  /\ Len(enabledTools) >= 1 /\ Len(enabledTools) < Len(allTools)

\* the shared configuration of the client: base URL and auth header
SharedConfiguration(c) == [baseUrl |-> c.baseUrl, authHeaders |-> c.authHeaders]

OthersUntouched(i) == \A j \in 1..MaxInFlight : j # i => slots'[j] = slots[j]

\* what the call in slot s answers when its own fetch settles with resp
OwnOutcome(s, resp) ==
  LET out == RequestOutcome(resp)
  IN  IF out.ok
        THEN [ok |-> TRUE,
              text |-> IF Find(allTools, s.name).tool.wrapper = "createActionTool"
                         THEN SuccessMessage(s.name, s.handlerArgs)
                         ELSE <<"JSON.stringify(", out.value, ", null, 2)">>]
        ELSE [ok |-> FALSE, text |-> <<"Tool execution failed: ">> \o out.error]

StartsInFlight(i) == ~slots[i].busy /\ slots'[i].busy
SettlesInFlight(i) == slots[i].busy /\ ~slots'[i].busy

C26_Step ==
  /\ pc # "main" => SharedConfiguration(client') = SharedConfiguration(client)
  /\ \A i \in 1..MaxInFlight :
       /\ StartsInFlight(i) =>
            /\ OthersUntouched(i)
            /\ lastResponse' = lastResponse
            /\ slots'[i].req = CallStart(slots'[i].name, slots'[i].args).req
            /\ SubSeq(slots'[i].req.url, 1, Len(client.baseUrl)) = client.baseUrl
       /\ SettlesInFlight(i) =>
            /\ OthersUntouched(i)
            /\ lastResponse'.req = slots[i].req
            /\ lastResponse'.args = slots[i].args
            /\ \E resp \in Responses :
                 /\ lastResponse'.ok = OwnOutcome(slots[i], resp).ok
                 /\ lastResponse'.text = OwnOutcome(slots[i], resp).text

\* C26: with several tool calls in flight on one client, each call builds its
\* own request from its own arguments, its answer is determined by its own
\* arguments and its own HTTP response, the other calls in flight are left as
\* they were, and the base URL and auth header are written only while the
\* client is constructed, never by a request.
C26_CallsIsolated ==
  /\ [](\A i \in 1..MaxInFlight :
          slots[i].busy => slots[i].req = CallStart(slots[i].name, slots[i].args).req)
  /\ [][C26_Step]_vars

\* two calls of different tools are in flight on the same client
C26_Witness ==
  /\ slots[1].busy /\ slots[2].busy
  /\ slots[1].name # slots[2].name
  /\ slots[1].req # slots[2].req
  /\ lastResponse.seen /\ lastResponse.ok /\ lastResponse.req # NoRequest

\* ------------------------------------------------------------------------
\* The handlers of delete_relation and trigger_flow, one run each
\* ------------------------------------------------------------------------
RelationArgs ==
  { [NoToolArgs EXCEPT !.collection = "articles", !.field = f] : f \in {"author", "editor"} }

\* bodies of the /relations response
RelationLists ==
  { RelationsBody(FALSE, <<>>),
    RelationsBody(TRUE, <<>>),
    RelationsBody(TRUE, <<Relation("articles", "author", IdNum(1), FALSE, NoId)>>),
    RelationsBody(TRUE, <<Relation("users", "author", IdNum(1), TRUE, IdNum(1)),
                          Relation("articles", "author", NoId, TRUE, IdNum(2))>>),
    RelationsBody(TRUE, <<Relation("articles", "author", IdNum(0), TRUE, IdNum(2))>>),
    RelationsBody(TRUE, <<Relation("articles", "author", NoId, FALSE, NoId)>>),
    RelationsBody(TRUE, <<Relation("articles", "editor", IdNum(1), TRUE, IdNum(2)),
                          Relation("articles", "author", IdNum(2), TRUE, IdNum(1))>>),
    RelationsBody(TRUE, <<Relation("articles", "title", IdNum(1), FALSE, NoId),
                          Relation("pages", "editor", IdNum(2), FALSE, NoId)>>),
    RelationsBody(TRUE, <<Relation("articles", "author", IdNum(2), FALSE, NoId),
                          Relation("articles", "author", IdNum(1), FALSE, NoId)>>) }

TriggerArgs ==
  { [NoToolArgs EXCEPT !.id = "flow-1", !.method = m, !.data = d, !.fields = f, !.meta = mt] :
      m \in {"undefined", "GET", "POST"},
      d \in {Undef, Obj("payload")},
      f \in {QUndef, QArr(<<>>), QArr(<< <<"id">>, <<"name">> >>)},
      mt \in {QUndef, QStr(<<>>), QStr(<<"total_count">>)} }

InitTool ==
  /\ ToolsetsOff /\ ClientOff /\ ServerOff
  /\ rq = NoRq /\ qs = NoQs /\ rf = NoRf /\ th = NoTh /\ both = NoBoth
  /\ \/ \E a \in RelationArgs : tl = [NoTl EXCEPT !.pc = "new", !.name = "delete_relation", !.args = a]
     \/ \E a \in TriggerArgs  : tl = [NoTl EXCEPT !.pc = "new", !.name = "trigger_flow", !.args = a]

ToolUnchanged == UNCHANGED <<tsVars, clientVars, serverVars, rq, qs, rf, th, both>>

\* the handler runs up to its first await
HandlerStart ==
  /\ tl.pc = "new"
  /\ IF tl.name = "delete_relation"
       THEN tl' = [tl EXCEPT !.pc = "awaiting", !.requests = <<getRelations>>]
       ELSE LET c == TriggerFlowCall(tl.args)
            IN  tl' = [tl EXCEPT !.pc = "awaiting", !.call = c,
                                 !.requests = <<triggerFlow(c.method, c.id, c.bodyData,
                                                            c.queryParams)>>]
  /\ ToolUnchanged

\* the request the handler awaits resolves with body
RequestResolves(body) ==
  /\ tl.pc = "awaiting"
  /\ IF tl.name = "delete_relation" /\ ~tl.gotRelations
       THEN LET hit == FindRelation(body, tl.args)
            IN  IF hit.found
                  THEN tl' = [tl EXCEPT !.gotRelations = TRUE, !.relations = body,
                                !.requests = Append(@, deleteRelation(RelationId(hit.relation)))]
                  ELSE tl' = [tl EXCEPT !.gotRelations = TRUE, !.relations = body,
                                !.pc = "rejected", !.error = RelationNotFound(tl.args)]
       ELSE tl' = [tl EXCEPT !.pc = "resolved", !.value = body]
  /\ ToolUnchanged

\* the request the handler awaits rejects: the handler rejects with the same error
RequestRejects(err) ==
  /\ tl.pc = "awaiting"
  /\ tl' = [tl EXCEPT !.pc = "rejected", !.error = err]
  /\ ToolUnchanged

NextTool ==
  \/ HandlerStart
  \/ \E body \in RelationLists : RequestResolves(body)
  \/ \E err \in HandlerErrors : RequestRejects(err)

SpecTool == InitTool /\ [][NextTool]_vars

\* ------------------------------------------------------------------------
\* Claims about delete_relation and trigger_flow
\* ------------------------------------------------------------------------
Matches(r) == r.collection = tl.args.collection /\ r.field = tl.args.field
MatchingIndexes ==
  IF tl.relations.hasData THEN {i \in 1..Len(tl.relations.data) : Matches(tl.relations.data[i])}
  ELSE {}
FirstMatch == tl.relations.data[CHOOSE i \in MatchingIndexes : \A j \in MatchingIndexes : i <= j]
DeleteRequests == {i \in 1..Len(tl.requests) : tl.requests[i].method = "DELETE"}

\* the decimal text of the ids drawn
IdText(n) == CASE n = 1 -> "1" [] n = 2 -> "2"

\* C27: delete_relation first requests the list of relations; when a relation
\* of the list has the collection and the field of the arguments, the second
\* and last request deletes /relations/<id> of the first such relation, with
\* its id when it has a non-zero one and else its meta.id; when none matches
\* the handler rejects with 'Relation not found' and never requests a delete.
C27_DeleteRelation ==
  (tl.name = "delete_relation" /\ tl.pc # "new") =>
    /\ tl.requests[1] = [method |-> "GET", endpoint |-> <<"/", "relations">>, data |-> Undef]
    /\ Len(tl.requests) <= 2
    /\ DeleteRequests \subseteq {2}
    /\ DeleteRequests # {} => tl.gotRelations /\ MatchingIndexes # {}
    /\ (tl.gotRelations /\ MatchingIndexes # {}) =>
         /\ Len(tl.requests) = 2
         /\ tl.requests[2].method = "DELETE" /\ tl.requests[2].data = Undef
         /\ FirstMatch.id.t = "number" /\ FirstMatch.id.n # 0 =>
              tl.requests[2].endpoint = <<"/", "relations", "/", IdText(FirstMatch.id.n)>>
         /\ (FirstMatch.id.t = "undefined" /\ FirstMatch.hasMeta /\ FirstMatch.metaId.t = "number") =>
              tl.requests[2].endpoint = <<"/", "relations", "/", IdText(FirstMatch.metaId.n)>>
    /\ (tl.gotRelations /\ MatchingIndexes = {}) =>
         /\ tl.pc = "rejected"
         /\ tl.error[1] = "Relation not found"
         /\ tl.error = <<"Relation not found", " for ", tl.args.collection, ".", tl.args.field>>
         /\ Len(tl.requests) = 1

\* the matching relation has no id of its own and was deleted by its meta.id
C27_Witness ==
  /\ tl.name = "delete_relation" /\ tl.pc = "resolved"
  /\ Len(tl.requests) = 2 /\ MatchingIndexes # {}
  /\ FirstMatch.id.t = "undefined"
  /\ tl.requests[2].endpoint = <<"/", "relations", "/", "2">>

\* no relation of the list matched
C27_WitnessNotFound ==
  /\ tl.name = "delete_relation" /\ tl.pc = "rejected" /\ tl.gotRelations
  /\ tl.relations.hasData /\ tl.relations.data # <<>> /\ MatchingIndexes = {}

\* the query string expected for the fields and meta of the arguments
FieldsGiven == tl.args.fields.t = "array"
MetaGiven   == tl.args.meta.t = "string"
FieldsQuery ==
  CASE tl.args.fields = QArr(<<>>) -> <<"fields", "=">>
    [] tl.args.fields = QArr(<< <<"id">>, <<"name">> >>) -> <<"fields", "=", "id", "%2C", "name">>
    [] OTHER -> <<>>
MetaQuery ==
  IF MetaGiven /\ tl.args.meta.s # <<>> THEN <<"meta", "=">> \o tl.args.meta.s ELSE <<>>
ExpectedQuery ==
  CASE FieldsQuery # <<>> /\ MetaQuery # <<>> -> <<"?">> \o FieldsQuery \o <<"&">> \o MetaQuery
    [] FieldsQuery # <<>> /\ MetaQuery = <<>> -> <<"?">> \o FieldsQuery
    [] FieldsQuery = <<>> /\ MetaQuery # <<>> -> <<"?">> \o MetaQuery
    [] OTHER -> <<>>

\* C28: a trigger_flow call makes one request to /flows/trigger/<id>; its
\* method is the given one, GET when none is given; data is handed over as
\* the body only when the method is POST and dropped for GET; the fields and
\* the (non-empty) meta of the arguments are in the query string for both
\* methods, and no query-parameter object is passed when neither is given.
C28_TriggerFlow ==
  (tl.name = "trigger_flow" /\ tl.pc # "new") =>
    LET req == tl.requests[1]
        expectedMethod == IF tl.args.method = "undefined" THEN "GET" ELSE tl.args.method
    IN  /\ Len(tl.requests) = 1
        /\ tl.call.made /\ tl.call.method = expectedMethod /\ req.method = expectedMethod
        /\ req.method = "POST" => req.data = tl.args.data /\ tl.call.bodyData = tl.args.data
        /\ req.method = "GET" => req.data = Undef /\ tl.call.bodyData = Undef
        /\ req.data # Undef => tl.args.method = "POST"
        /\ req.endpoint = <<"/flows/trigger/", tl.args.id>> \o ExpectedQuery
        /\ FieldsGiven => tl.call.queryParams.given /\ tl.call.queryParams.bag["fields"] = tl.args.fields
        /\ (MetaGiven /\ tl.args.meta.s # <<>>) =>
             tl.call.queryParams.given /\ tl.call.queryParams.bag["meta"] = tl.args.meta
        /\ (~FieldsGiven /\ ~MetaGiven) => ~tl.call.queryParams.given

\* data was supplied without a method: the request is a GET without a body,
\* with fields and meta in its query string
C28_Witness ==
  /\ tl.name = "trigger_flow" /\ tl.pc = "resolved"
  /\ tl.args.method = "undefined" /\ tl.args.data # Undef
  /\ tl.requests[1] = [method |-> "GET",
                       endpoint |-> <<"/flows/trigger/", "flow-1", "?", "fields", "=", "id", "%2C",
                                      "name", "&", "meta", "=", "total_count">>,
                       data |-> Undef]

\* the names of the last tools/list response
ListedNames == {listed.names[i] : i \in 1..Len(listed.names)}

\* the tool call that completed last was dispatched to a tool
Dispatched == lastResponse.events # <<>>

C29_Step ==
  /\ pc # "load" => enabledTools' = enabledTools
  /\ (listed.sent /\ listed'.sent) => listed'.names = listed.names

\* C29: the names a tools/list response carries are the names of the tools
\* enabled at startup, and a tools/call request is dispatched to a tool exactly
\* when its name is among them, whatever the order of list and call requests;
\* the enabled tools never change after module load.
C29_ListedIffCallable ==
  /\ [](listed.sent =>
          /\ ListedNames = EnabledNames
          /\ Len(listed.names) = Cardinality(ListedNames)
          /\ \A i \in 1..MaxInFlight : slots[i].busy => slots[i].name \in ListedNames
          /\ lastResponse.seen => (Dispatched <=> lastResponse.name \in ListedNames))
  /\ [][C29_Step]_vars

\* after a list response, a listed tool was dispatched while a call of a tool
\* that is in the registry but not in the list is refused
C29_Witness ==
  /\ listed.sent /\ ListedNames # {}
  /\ \E i \in 1..MaxInFlight : slots[i].busy /\ slots[i].name \in ListedNames
  /\ lastResponse.seen /\ ~Dispatched
  /\ lastResponse.name \in AllNames \ ListedNames

\* ------------------------------------------------------------------------
\* One method called with the same arguments on both classes
\* ------------------------------------------------------------------------
PlainMethods  == {"getCollections", "getRelations"}
ById          == {"getCollection", "deleteCollection", "getFields", "getRelation", "deleteRelation",
                  "deleteFlow"}
ByTwoIds      == {"getField", "deleteField", "deleteItem"}
WithData      == {"createCollection", "createRelation", "createFlow", "createFlows", "updateFlows",
                  "deleteFlows"}
ByIdWithData  == {"updateCollection", "createField", "updateRelation", "createItem",
                  "bulkCreateItems", "bulkUpdateItems", "bulkDeleteItems", "updateFlow"}
ByTwoWithData == {"updateField", "updateItem"}
WithParams    == {"listFlows"}
ByIdWithParams  == {"queryItems", "getFlow"}
ByTwoWithParams == {"getItem"}
ClientMethods == PlainMethods \cup ById \cup ByTwoIds \cup WithData \cup ByIdWithData
                  \cup ByTwoWithData \cup WithParams \cup ByIdWithParams \cup ByTwoWithParams
                  \cup {"triggerFlow"}

FirstArgs  == {"articles", "7"}
SecondArgs == {"title", "42"}
DataArgs   == {Obj("item"), Arr(<<"1", "2">>), Undef}

\* the params object: absent, empty, or holding some of the keys
ParamArgs ==
  {[hasParams |-> FALSE, params |-> EmptyBag], [hasParams |-> TRUE, params |-> EmptyBag]}
    \cup {[hasParams |-> TRUE, params |-> UsualBag(S)] :
            S \in {{"fields", "limit"}, {"filter", "sort", "meta"}, {"export"},
                   {"fields", "meta", "export"}}}

MethodArgs(name) ==
  LET as == IF name \in PlainMethods \cup WithData \cup WithParams THEN {""} ELSE FirstArgs
      bs == IF name \in ByTwoIds \cup ByTwoWithData \cup ByTwoWithParams THEN SecondArgs ELSE {""}
      ds == IF name \in WithData \cup ByIdWithData \cup ByTwoWithData \cup {"triggerFlow"}
              THEN DataArgs ELSE {Undef}
      ps == IF name \in WithParams \cup ByIdWithParams \cup ByTwoWithParams \cup {"triggerFlow"}
              THEN ParamArgs ELSE {[hasParams |-> FALSE, params |-> EmptyBag]}
      ms == IF name = "triggerFlow" THEN {"GET", "POST"} ELSE {"GET"}
  IN  {[a |-> a, b |-> b, data |-> d, hasParams |-> p.hasParams, params |-> p.params,
        method |-> m] : a \in as, b \in bs, d \in ds, p \in ps, m \in ms}

InitBoth ==
  /\ ToolsetsOff /\ ClientOff /\ ServerOff
  /\ rq = NoRq /\ qs = NoQs /\ rf = NoRf /\ th = NoTh /\ tl = NoTl
  /\ \E name \in ClientMethods : \E x \in MethodArgs(name) :
       both = [NoBoth EXCEPT !.pc = "new", !.name = name, !.args = x]

BothUnchanged == UNCHANGED <<tsVars, clientVars, serverVars, rq, qs, rf, th, tl>>

\* the method is called on the class built on createResourceMethods
CallFactoryBased ==
  /\ both.pc = "new" /\ both.factoryBased = <<>>
  /\ both' = [both EXCEPT !.factoryBased = <<FactoryBasedRequest(both.name, both.args)>>,
                          !.pc = IF both.handWritten # <<>> THEN "done" ELSE "new"]
  /\ BothUnchanged

\* the method is called on the hand-written class
CallHandWritten ==
  /\ both.pc = "new" /\ both.handWritten = <<>>
  /\ both' = [both EXCEPT !.handWritten = <<HandWrittenRequest(both.name, both.args)>>,
                          !.pc = IF both.factoryBased # <<>> THEN "done" ELSE "new"]
  /\ BothUnchanged

NextBoth == CallFactoryBased \/ CallHandWritten

SpecBoth == InitBoth /\ [][NextBoth]_vars

\* ------------------------------------------------------------------------
\* Claims about the two classes
\* ------------------------------------------------------------------------
\* the params object given holds a truthy export entry
ExportGiven == both.args.hasParams /\ both.args.params["export"].t = "string"
                 /\ both.args.params["export"].s # <<>>
TakesParams == both.name \in WithParams \cup ByIdWithParams \cup ByTwoWithParams \cup {"triggerFlow"}

\* C30 as stated: for every method both classes define and every argument
\* list, both issue the same single request (method, endpoint with its query
\* string, body).
C30_SameRequestAlways ==
  both.pc = "done" =>
    /\ Len(both.factoryBased) = 1 /\ Len(both.handWritten) = 1
    /\ both.factoryBased[1] = both.handWritten[1]

\* the export pair the class built on createResourceMethods appends last
ExportSuffix ==
  LET e == <<"export", "=">> \o both.args.params["export"].s
  IN  IF \E k \in QueryKeySet \ {"export"} : Appends(k, both.args.params[k])
        THEN <<"&">> \o e ELSE <<"?">> \o e

\* C30 amended: both classes issue one request each, with the same method and
\* the same body; the endpoints are the same, query string included, unless
\* the params object holds a truthy export entry, and then the endpoint of
\* the class built on createResourceMethods is the endpoint of the
\* hand-written class followed by the export pair.
C30_SameRequestUnlessExport ==
  both.pc = "done" =>
    /\ Len(both.factoryBased) = 1 /\ Len(both.handWritten) = 1
    /\ both.factoryBased[1].method = both.handWritten[1].method
    /\ both.factoryBased[1].data = both.handWritten[1].data
    /\ ~(TakesParams /\ ExportGiven) => both.factoryBased[1] = both.handWritten[1]
    /\ (TakesParams /\ ExportGiven) =>
         both.factoryBased[1].endpoint = both.handWritten[1].endpoint \o ExportSuffix

\* triggerFlow with POST, a body and a params object without export went to
\* both classes
C30_Witness ==
  /\ both.pc = "done" /\ both.name = "triggerFlow"
  /\ both.args.method = "POST" /\ both.args.data = Obj("item")
  /\ both.args.hasParams /\ ~ExportGiven
  /\ both.factoryBased[1].endpoint # <<"/flows/trigger/", both.args.a>>
  /\ both.factoryBased = both.handWritten

====
